---- MODULE Spec2Model ----
(***************************************************************************)
(* The multiplexing tunnel of almondrocks3.py: the frame codec (Message),  *)
(* the Channel socket pair, and Tunnel.open_channel / close_channel /      *)
(* close_tunnel / _monitor, run by Python threads that interleave between  *)
(* source lines.  Two peers share one transport; rxbuf[p] holds the bytes  *)
(* the other peer wrote and p has not read yet.                            *)
(***************************************************************************)
EXTENDS Integers, Sequences, FiniteSets, TLC

\* ------------------------------------------------------------------ bounds
NumIds == 2
MaxOps == 2
MaxBody == 2
SendChunk == 4

\* ------------------------------------------------------- program constants
HDR_SIZE == 7
RecvMax == 4096
Control == 0
Data == 1
OpenChannel == 2
CloseChannel == 3

Peers == {"A", "B"}
Workers == {"w1", "w2"}
Threads == Workers \cup {"mon", "main"}
IdSet == 1..NumIds

\* What the transport holds before sendall blocks: room for every frame the
\* bounded operations can cause, so only a sender that never stops fills it.
WireCap == (HDR_SIZE + 1) * (MaxOps + 2)

Other(p) == IF p = "A" THEN "B" ELSE "A"

Min(a, b) == IF a < b THEN a ELSE b

SetMax(S) == CHOOSE x \in S : \A y \in S : y <= x

VARIABLES
    chans,            \* chans[p]: every Channel object peer p has constructed
    channels,         \* channels[p]: Tunnel.channels, a list of Channel objects
    closed_channels,  \* closed_channels[p]: Tunnel.closed_channels, id -> object (0: no key)
    transport_lock,   \* transport_lock[p]: the thread holding Tunnel.transport_lock
    transport_open,   \* transport_open[p]: p's transport socket is not closed
    rxbuf,            \* rxbuf[p]: bytes on the transport that p has not received yet
    th,               \* th[p][t]: position and locals of thread t of peer p
    exited,           \* exited[p]: the process of p has left through sys.exit
    sigint,           \* sigint[p]: a SIGINT was sent to the process with os.kill
    used,             \* opens, injected frames and application writes so far
    serial,           \* TRUE: the threads of a peer run their calls one at a time
    codec,            \* a Message, its serialized bytes and what Message.parse made of them
    socks,            \* socks[t]: the SOCKS5 session that Relay thread t handles
    server            \* the Server's channel_counter and the client it is serving

vars == <<chans, channels, closed_channels, transport_lock, transport_open,
          rxbuf, th, exited, sigint, used, serial, codec, socks, server>>

\* ------------------------------------------------------------- frame codec
Msg(body, channel_id, msg_type) ==
    [body |-> body, channel_id |-> channel_id, msg_type |-> msg_type]

NoMsg == Msg(<<>>, 0, Control)

\* A serialize that packs the channel id little-endian ('<H').
serialize_le(m) ==
    LET n == Len(m.body)
    IN  << m.msg_type % 256,
           m.channel_id % 256, (m.channel_id \div 256) % 256,
           (n \div 16777216) % 256, (n \div 65536) % 256,
           (n \div 256) % 256, n % 256 >> \o m.body

\* struct.pack('!BHI', msg_type.value, channel_id, len(body)) + body
serialize(m) ==
    LET n == Len(m.body)
    IN  << m.msg_type % 256,
           (m.channel_id \div 256) % 256, m.channel_id % 256,
           (n \div 16777216) % 256, (n \div 65536) % 256,
           (n \div 256) % 256, n % 256 >> \o m.body

\* struct.pack raises struct.error for a value its format cannot hold: 'B' one
\* byte, 'H' two bytes ('I' holds the length of every body of the model).
IdMax == 65535

serialize_raises(m) ==
    IF m.msg_type \in 0..255 /\ m.channel_id \in 0..IdMax
    THEN "none" ELSE "struct.error"

parse_hdr(data) ==
    [msg_type |-> data[1],
     channel_id |-> data[2] * 256 + data[3],
     length |-> data[4] * 16777216 + data[5] * 65536 + data[6] * 256 + data[7]]

KnownType(ty) == ty \in {Control, Data, OpenChannel, CloseChannel}

\* The size of the frame whose header starts a byte string: header plus length field.
FirstFrameLen(buf) == HDR_SIZE + parse_hdr(SubSeq(buf, 1, HDR_SIZE)).length

\* Message.parse_hdr(data): struct.unpack raises struct.error on fewer than 7
\* bytes; MessageType(x) raises ValueError for an x that is no member, and the
\* "except TypeError" around it does not catch that.
parse_hdr_raises(data) ==
    IF Len(data) < HDR_SIZE THEN "struct.error"
    ELSE IF ~KnownType(data[1]) THEN "ValueError"
    ELSE "none"

\* A parse without the check of the length field against the body.
parse_unchecked(data) ==
    IF Len(data) < HDR_SIZE THEN [err |-> "ValueError", msg |-> NoMsg]
    ELSE IF parse_hdr_raises(SubSeq(data, 1, HDR_SIZE)) # "none"
    THEN [err |-> parse_hdr_raises(SubSeq(data, 1, HDR_SIZE)), msg |-> NoMsg]
    ELSE LET h == parse_hdr(SubSeq(data, 1, HDR_SIZE))
         IN  [err |-> "none",
              msg |-> Msg(SubSeq(data, HDR_SIZE + 1, Len(data)), h.channel_id, h.msg_type)]

\* Message.parse(data): the Message, or the exception it raises.
parse(data) ==
    IF Len(data) < HDR_SIZE THEN [err |-> "ValueError", msg |-> NoMsg]
    ELSE IF parse_hdr_raises(SubSeq(data, 1, HDR_SIZE)) # "none"
    THEN [err |-> parse_hdr_raises(SubSeq(data, 1, HDR_SIZE)), msg |-> NoMsg]
    ELSE LET h == parse_hdr(SubSeq(data, 1, HDR_SIZE))
             body == SubSeq(data, HDR_SIZE + 1, Len(data))
         IN  IF h.length # Len(body)
             THEN [err |-> "ValueError", msg |-> NoMsg]
             ELSE [err |-> "none", msg |-> Msg(body, h.channel_id, h.msg_type)]

\* ------------------------------------------------------------------ Channel
NewChannel(channel_id) ==
    [channel_id |-> channel_id,
     client_open |-> TRUE,      \* _client_end not closed
     tunnel_open |-> TRUE,      \* _tunnel_end not closed
     to_client |-> <<>>,        \* bytes written to _tunnel_end, unread at _client_end
     to_tunnel |-> <<>>,        \* bytes written to _client_end, unread at _tunnel_end
     tx |-> 0,                  \* Channel.tx
     rdlog |-> <<>>,            \* every byte Channel.recv has returned (rx = its length)
     dlv |-> <<>>,              \* every byte the monitor wrote to _tunnel_end
     eof |-> FALSE,             \* Channel.recv has returned b''
     app_closed |-> FALSE,      \* the application itself closed _client_end
     by_frame |-> FALSE,        \* closed on a CloseChannel frame from the peer
     close_sent |-> FALSE,      \* its close has written a CloseChannel frame
     close_rx |-> FALSE,        \* the monitor got a CloseChannel frame for it
     opened_cb |-> 0,           \* times open_channel_callback was called with it
     closed_cb |-> 0]           \* times close_channel_callback was called with it

ChannelIdOf(p, o) == chans[p][o].channel_id

\* Tunnel.id_channel_map: {y: x for x, y in self.channels}; a later entry of the
\* list replaces an earlier one with the same id.  0 stands for a missing key.
MapOf(p, list, id) ==
    LET ks == {k \in 1..Len(list) : ChannelIdOf(p, list[k]) = id}
    IN  IF ks = {} THEN 0 ELSE list[SetMax(ks)]

id_channel_map(p) == [i \in IdSet |-> MapOf(p, channels[p], i)]

InOpenSet(p, id) == id_channel_map(p)[id] # 0

InClosedSet(p, id) == closed_channels[p][id] # 0

OpenIds(p) == {i \in IdSet : InOpenSet(p, i)}

ClosedIds(p) == {i \in IdSet : InClosedSet(p, i)}

NoCodec == [stage |-> "none", msg |-> NoMsg, data |-> <<>>, intact |-> TRUE,
            res |-> [err |-> "none", msg |-> NoMsg], hdr |-> "none"]

\* No SOCKS5 session: the thread has not been started on a channel.
NoSession ==
    [ch |-> 0,                  \* the Channel object handed to _handle_channel
     stage |-> "none",          \* where the handler is
     req |-> <<>>,              \* request_data
     reply |-> <<>>,            \* what was sent after the method selection
     dials |-> 0,               \* calls of remote_socket.connect
     dial |-> "none",           \* "ok" | "failed"
     af |-> 0,                  \* the reply's ATYP: 1 (AF_INET) or 4 (AF_INET6)
     err |-> "none",            \* the exception that left new_connect
     proxy |-> FALSE,           \* proxy_sock_channel was called with the target socket
     sock |-> "none",           \* the real socket of the worker: "open" | "closed"
     far |-> "up",              \* its far end: "up" | "eof" (closed) | "reset"
     sin |-> <<>>,              \* bytes the far end sent, unread
     sout |-> <<>>,             \* bytes written to the real socket
     r |-> {},                  \* what the worker's select returned
     data |-> <<>>,             \* the bytes just read
     why |-> "none"]            \* how the worker ended

NoSocks == [t \in Workers |-> NoSession]

\* The Server before it has accepted a SOCKS client.
NoServer ==
    [counter |-> 0,             \* the next value of channel_counter
     stage |-> "accept",        \* "accept" | "open" | "proxy" | "died"
     id |-> 0,                  \* the id passed to open_channel
     frame |-> <<>>,            \* the OpenChannel frame handed to sendall
     err |-> "none"]            \* the exception that ended _handle_channel

\* ------------------------------------------------------------------ threads
NoSnap ==
    [channels |-> <<>>, closed |-> [i \in IdSet |-> 0], out |-> 0, nobj |-> 0,
     ocb |-> <<>>, ccb |-> <<>>, dlv |-> <<>>]

Snap(p) ==
    IF ~serial THEN NoSnap ELSE
    [channels |-> channels[p], closed |-> closed_channels[p],
     out |-> Len(rxbuf[Other(p)]), nobj |-> Len(chans[p]),
     ocb |-> [o \in 1..Len(chans[p]) |-> chans[p][o].opened_cb],
     ccb |-> [o \in 1..Len(chans[p]) |-> chans[p][o].closed_cb],
     dlv |-> [o \in 1..Len(chans[p]) |-> chans[p][o].dlv]]

ThreadInit(pc0) ==
    [pc |-> pc0, stack |-> <<>>, op |-> "none", id |-> 0, remote |-> FALSE,
     exc |-> FALSE, ch |-> 0, sbuf |-> <<>>, i |-> 0, res |-> "none", retv |-> 0,
     pre |-> NoSnap, pre_ct |-> NoSnap, r |-> <<>>, tmap |-> <<>>,
     ignored |-> <<>>]

Me(p, t) == th[p][t]

SetMe(p, t, rec) == th' = [th EXCEPT ![p][t] = rec]

\* An exception nobody catches ends the call (a worker) or the thread (the monitor).
Raised(t, me, kind) ==
    [me EXCEPT !.pc = IF t = "mon" THEN "dead" ELSE "done",
               !.stack = <<>>, !.res = kind]

\* An entry that always asks for the remote notification.
EnterRemote(p, me, entry, retpc, id, remote, exc) ==
    [me EXCEPT !.pc = entry, !.stack = <<retpc>> \o @, !.id = id,
               !.remote = TRUE, !.exc = exc, !.ch = 0, !.res = "none",
               !.retv = 0, !.pre = Snap(p)]

\* Enter open_channel / close_channel with the given arguments.
Enter(p, me, entry, retpc, id, remote, exc) ==
    [me EXCEPT !.pc = entry, !.stack = <<retpc>> \o @, !.id = id,
               !.remote = remote, !.exc = exc, !.ch = 0, !.res = "none",
               !.retv = 0, !.pre = Snap(p)]

\* Enter transport_lock.acquire(); transport.sendall(m.serialize()); release().
EnterSend(me, m, retpc) ==
    [me EXCEPT !.pc = "s_acq", !.stack = <<retpc>> \o @, !.sbuf = serialize(m)]

Pop(me) ==
    [me EXCEPT !.pc = Head(me.stack), !.stack = Tail(@), !.sbuf = <<>>]

\* Return from open_channel / close_channel: the call's locals go away.
Return(me) ==
    [Pop(me) EXCEPT !.remote = FALSE, !.exc = FALSE, !.ch = 0, !.res = "none",
                    !.retv = 0, !.pre = NoSnap]

\* No other thread of p is inside a call or inside a monitor iteration.
Solo(p, t) == \A u \in Threads \ {t} : th[p][u].pc \in {"idle", "m_select", "dead"}

Running(p, t, at) == ~exited[p] /\ th[p][t].pc = at /\ (serial => Solo(p, t))

\* In a serial run the application and the remote peer act between calls, and
\* the remote peer has read what was sent before the next call starts.
Resting(p) == \A u \in Threads : th[p][u].pc \in {"idle", "m_select", "dead"}

AtRest(p) == serial => Resting(p) /\ rxbuf[Other(p)] = <<>>

Starting(p, t, at) == Running(p, t, at) /\ AtRest(p)

\* Opens, injected frames and application writes are counted against the budget:
\* MaxOps in a serial run, one more where the threads interleave, so that the
\* monitor and both calling threads can be inside the write path together.  A
\* close only undoes an open, so a serial run leaves closes uncounted; where the
\* threads interleave they are counted like the rest.
Budget == IF serial THEN MaxOps ELSE MaxOps + 1

CanOp == used < Budget

CanClose == serial \/ CanOp

AfterClose == IF serial THEN used ELSE used + 1

\* ----------------------------------------------------------------- Init
Start ==
    /\ chans = [p \in Peers |-> <<>>]
    /\ channels = [p \in Peers |-> <<>>]
    /\ closed_channels = [p \in Peers |-> [i \in IdSet |-> 0]]
    /\ transport_lock = [p \in Peers |-> "free"]
    /\ transport_open = [p \in Peers |-> TRUE]
    /\ rxbuf = [p \in Peers |-> <<>>]
    /\ th = [p \in Peers |->
                [t \in Threads |-> ThreadInit(IF t = "mon" THEN "m_select" ELSE "idle")]]
    /\ exited = [p \in Peers |-> FALSE]
    /\ sigint = [p \in Peers |-> FALSE]
    /\ used = 0

\* ------------------------------------------------- the transport write path
\* A write path that does not wait for transport_lock.
LockAlwaysFree(p) == TRUE

\* transport_lock.acquire(): blocks while another thread holds the lock.
LockFree(p) == transport_lock[p] = "free"

SendAcquire(p, t) ==
    /\ Running(p, t, "s_acq")
    /\ LockFree(p)
    /\ transport_lock' = [transport_lock EXCEPT ![p] = t]
    /\ SetMe(p, t, [Me(p, t) EXCEPT !.pc = "s_io"])
    /\ UNCHANGED <<server, socks, codec, serial, chans, channels, closed_channels, transport_open, rxbuf,
                   exited, sigint, used>>

\* transport.sendall(...) raises OSError; the lock stays held.  Only the monitor's
\* write of a Data frame is inside a try (L560-567).
SendFails(p, t) ==
    LET me == Me(p, t)
    IN  /\ SetMe(p, t, IF t = "mon" /\ Head(me.stack) = "m_chan"
                       THEN [me EXCEPT !.pc = "m_fatal", !.stack = <<>>, !.res = "OSError"]
                       ELSE Raised(t, me, "OSError"))
        /\ UNCHANGED rxbuf

\* transport.sendall(...): the socket takes at most SendChunk bytes per send call.
\* On a socket that was closed here it raises OSError.  Once the peer has closed
\* its socket a write may still be taken by the kernel (and be lost) or may raise.
SendIO(p, t) ==
    /\ Running(p, t, "s_io")
    /\ LET me == Me(p, t)
           n == Min(SendChunk, Len(me.sbuf))
           rest == SubSeq(me.sbuf, n + 1, Len(me.sbuf))
       IN  IF ~transport_open[p]
           THEN SendFails(p, t)
           ELSE IF ~transport_open[Other(p)]
           THEN \/ SendFails(p, t)
                \/ /\ SetMe(p, t, [me EXCEPT !.sbuf = <<>>, !.pc = "s_rel"])
                   /\ UNCHANGED rxbuf
           ELSE /\ Len(rxbuf[Other(p)]) + n <= WireCap
                /\ rxbuf' = [rxbuf EXCEPT ![Other(p)] = @ \o SubSeq(me.sbuf, 1, n)]
                /\ SetMe(p, t, [me EXCEPT !.sbuf = rest,
                                          !.pc = IF rest = <<>> THEN "s_rel" ELSE "s_io"])
    /\ UNCHANGED <<server, socks, codec, serial, chans, channels, closed_channels, transport_lock, transport_open,
                   exited, sigint, used>>

SendRelease(p, t) ==
    /\ Running(p, t, "s_rel")
    /\ transport_lock' = [transport_lock EXCEPT ![p] = "free"]
    /\ SetMe(p, t, Pop(Me(p, t)))
    /\ UNCHANGED <<server, socks, codec, serial, chans, channels, closed_channels, transport_open, rxbuf,
                   exited, sigint, used>>

\* ------------------------------------------------------ Tunnel.open_channel
\* An open_channel that also takes a closed id for an open one.
AlreadyOpenOrClosed(p, id) == InOpenSet(p, id) \/ InClosedSet(p, id)

\* An open_channel that never finds the id open.
AlreadyOpenNever(p, id) == FALSE

\* if channel_id in self.id_channel_map: raise or return the existing channel
AlreadyOpen(p, id) == InOpenSet(p, id)

OpenCheck(p, t) ==
    /\ Running(p, t, "oc_check")
    /\ LET me == Me(p, t)
       IN  SetMe(p, t,
             IF AlreadyOpen(p, me.id)
             THEN IF me.exc
                  THEN Raised(t, me, "ValueError")
                  ELSE [me EXCEPT !.pc = "oc_ret", !.res = "ok",
                                  !.retv = id_channel_map(p)[me.id]]
             ELSE [me EXCEPT !.pc = "oc_new"])
    /\ UNCHANGED <<server, socks, codec, serial, chans, channels, closed_channels, transport_lock, transport_open,
                   rxbuf, exited, sigint, used>>

\* channel = Channel(channel_id); self.channels.append((channel, channel_id))
OpenNew(p, t) ==
    /\ Running(p, t, "oc_new")
    /\ LET me == Me(p, t)
           o == Len(chans[p]) + 1
           me1 == [me EXCEPT !.ch = o]
       IN  /\ chans' = [chans EXCEPT ![p] = Append(@, NewChannel(me.id))]
           /\ channels' = [channels EXCEPT ![p] = Append(@, o)]
           /\ SetMe(p, t,
                IF me.remote
                THEN EnterSend(me1, Msg(<<>>, me.id, OpenChannel), "oc_cb")
                ELSE [me1 EXCEPT !.pc = "oc_cb"])
    /\ UNCHANGED <<server, socks, codec, serial, closed_channels, transport_lock, transport_open, rxbuf, exited,
                   sigint, used>>

\* self.open_channel_callback(channel); return channel
OpenCallback(p, t) ==
    /\ Running(p, t, "oc_cb")
    /\ LET me == Me(p, t)
       IN  /\ chans' = [chans EXCEPT ![p][me.ch].opened_cb = @ + 1]
           /\ SetMe(p, t, [me EXCEPT !.pc = "oc_ret", !.res = "ok", !.retv = me.ch])
    /\ UNCHANGED <<server, socks, codec, serial, channels, closed_channels, transport_lock, transport_open, rxbuf,
                   exited, sigint, used>>

OpenReturn(p, t) ==
    /\ Running(p, t, "oc_ret")
    /\ SetMe(p, t, Return(Me(p, t)))
    /\ UNCHANGED <<server, socks, codec, serial, chans, channels, closed_channels, transport_lock, transport_open,
                   rxbuf, exited, sigint, used>>

\* ------------------------------------------------------------ API callers
CallOpen(p, t, id, remote, exc) ==
    /\ Starting(p, t, "idle")
    /\ CanOp
    /\ SetMe(p, t, [Enter(p, Me(p, t), "oc_check", "done", id, remote, exc)
                       EXCEPT !.op = "open_channel"])
    /\ used' = used + 1
    /\ UNCHANGED <<server, socks, codec, serial, chans, channels, closed_channels, transport_lock, transport_open,
                   rxbuf, exited, sigint>>

\* The caller has its result (or its exception) and goes on to its next call.
CallDone(p, t) ==
    /\ Running(p, t, "done")
    /\ SetMe(p, t, ThreadInit("idle"))
    /\ UNCHANGED <<server, socks, codec, serial, chans, channels, closed_channels, transport_lock, transport_open,
                   rxbuf, exited, sigint, used>>

\* ----------------------------------------------------- Tunnel.close_channel
RemoveFirst(s, x) ==
    LET k == CHOOSE j \in 1..Len(s) : s[j] = x /\ \A h \in 1..(j - 1) : s[h] # x
    IN  SubSeq(s, 1, k - 1) \o SubSeq(s, k + 1, Len(s))

InSeq(s, x) == \E j \in 1..Len(s) : s[j] = x

\* A close_channel that never finds the id in the closed set.
AlreadyClosedNever(p, id) == FALSE

\* if channel_id in self.closed_channels: (re-send the remote close and) return
AlreadyClosed(p, id) == InClosedSet(p, id)

CloseCheck(p, t) ==
    /\ Running(p, t, "cc_check")
    /\ LET me == Me(p, t)
       IN  SetMe(p, t,
             IF AlreadyClosed(p, me.id)
             THEN IF me.remote
                  THEN EnterSend(me, Msg(<<>>, me.id, CloseChannel), "cc_ret")
                  ELSE [me EXCEPT !.pc = "cc_ret", !.res = "ok"]
             ELSE [me EXCEPT !.pc = "cc_lookup"])
    /\ UNCHANGED <<server, socks, codec, serial, chans, channels, closed_channels, transport_lock, transport_open,
                   rxbuf, exited, sigint, used>>

\* if channel_id not in self.id_channel_map: raise ValueError or return
CloseLookup(p, t) ==
    /\ Running(p, t, "cc_lookup")
    /\ LET me == Me(p, t)
       IN  SetMe(p, t,
             IF ~InOpenSet(p, me.id)
             THEN IF me.exc
                  THEN Raised(t, me, "ValueError")
                  ELSE [me EXCEPT !.pc = "cc_ret", !.res = "ok"]
             ELSE [me EXCEPT !.pc = "cc_get"])
    /\ UNCHANGED <<server, socks, codec, serial, chans, channels, closed_channels, transport_lock, transport_open,
                   rxbuf, exited, sigint, used>>

\* channel = self.id_channel_map[channel_id]        (KeyError when the id has gone)
CloseGet(p, t) ==
    /\ Running(p, t, "cc_get")
    /\ LET me == Me(p, t)
       IN  SetMe(p, t,
             IF ~InOpenSet(p, me.id)
             THEN Raised(t, me, "KeyError")
             ELSE [me EXCEPT !.pc = "cc_remove", !.ch = id_channel_map(p)[me.id]])
    /\ UNCHANGED <<server, socks, codec, serial, chans, channels, closed_channels, transport_lock, transport_open,
                   rxbuf, exited, sigint, used>>

\* self.channels.remove((channel, channel_id))      (ValueError when not in the list)
CloseRemove(p, t) ==
    /\ Running(p, t, "cc_remove")
    /\ LET me == Me(p, t)
       IN  IF ~InSeq(channels[p], me.ch)
           THEN /\ SetMe(p, t, Raised(t, me, "ValueError"))
                /\ UNCHANGED channels
           ELSE /\ channels' = [channels EXCEPT ![p] = RemoveFirst(@, me.ch)]
                /\ SetMe(p, t, [me EXCEPT !.pc = "cc_close"])
    /\ UNCHANGED <<server, socks, codec, serial, chans, closed_channels, transport_lock, transport_open, rxbuf,
                   exited, sigint, used>>

\* channel.close(); channel.tunnel_interface.close(); then the remote close if asked
CloseEndpoints(p, t) ==
    /\ Running(p, t, "cc_close")
    /\ LET me == Me(p, t)
       IN  /\ chans' = [chans EXCEPT ![p][me.ch].client_open = FALSE,
                                     ![p][me.ch].tunnel_open = FALSE,
                                     ![p][me.ch].by_frame = (Head(me.stack) = "m_ignore")]
           /\ SetMe(p, t,
                IF me.remote
                THEN EnterSend(me, Msg(<<>>, me.id, CloseChannel), "cc_finish")
                ELSE [me EXCEPT !.pc = "cc_finish"])
    /\ UNCHANGED <<server, socks, codec, serial, channels, closed_channels, transport_lock, transport_open, rxbuf,
                   exited, sigint, used>>

\* self.close_channel_callback(channel); self.closed_channels[channel_id] = channel
CloseFinish(p, t) ==
    /\ Running(p, t, "cc_finish")
    /\ LET me == Me(p, t)
       IN  /\ chans' = [chans EXCEPT ![p][me.ch].closed_cb = @ + 1,
                                     ![p][me.ch].close_sent = me.remote]
           /\ closed_channels' = [closed_channels EXCEPT ![p][me.id] = me.ch]
           /\ SetMe(p, t, [me EXCEPT !.pc = "cc_ret", !.res = "ok"])
    /\ UNCHANGED <<server, socks, codec, serial, channels, transport_lock, transport_open, rxbuf, exited, sigint,
                   used>>

CloseReturn(p, t) ==
    /\ Running(p, t, "cc_ret")
    /\ SetMe(p, t, Return(Me(p, t)))
    /\ UNCHANGED <<server, socks, codec, serial, chans, channels, closed_channels, transport_lock, transport_open,
                   rxbuf, exited, sigint, used>>

CallClose(p, t, id, remote, exc) ==
    /\ Starting(p, t, "idle")
    /\ CanClose
    /\ SetMe(p, t, [Enter(p, Me(p, t), "cc_check", "done", id, remote, exc)
                       EXCEPT !.op = "close_channel"])
    /\ used' = AfterClose
    /\ UNCHANGED <<server, socks, codec, serial, chans, channels, closed_channels, transport_lock, transport_open,
                   rxbuf, exited, sigint>>

\* ------------------------------------------------------ Tunnel.close_tunnel
\* sigint_handler: self.close_tunnel(); sys.exit(0)
CallCloseTunnel(p, t) ==
    /\ Starting(p, t, "idle")
    /\ SetMe(p, t, [Me(p, t) EXCEPT !.pc = "ct_iter", !.stack = <<"exit">>,
                                    !.op = "close_tunnel", !.i = 0,
                                    !.pre_ct = Snap(p)])
    /\ sigint' = [sigint EXCEPT ![p] = FALSE]
    /\ UNCHANGED <<server, socks, codec, serial, chans, channels, closed_channels, transport_lock, transport_open,
                   rxbuf, exited, used>>

\* The SIGINT that the monitor sent with os.kill reaches the main thread, which
\* runs sigint_handler.
SignalDelivered(p) ==
    /\ sigint[p]
    /\ Running(p, "main", "idle")
    /\ SetMe(p, "main", [Me(p, "main") EXCEPT !.pc = "ct_iter", !.stack = <<"exit">>,
                                              !.op = "close_tunnel", !.i = 0,
                                              !.pre_ct = Snap(p)])
    /\ sigint' = [sigint EXCEPT ![p] = FALSE]
    /\ UNCHANGED <<server, socks, codec, serial, chans, channels, closed_channels, transport_lock, transport_open,
                   rxbuf, exited, used>>

\* tunnel.close_tunnel() called by a thread of the application: no sys.exit follows.
CallCloseTunnelApi(p, t) ==
    /\ Starting(p, t, "idle")
    /\ transport_open[p]
    /\ CanOp
    /\ SetMe(p, t, [Me(p, t) EXCEPT !.pc = "ct_iter", !.stack = <<"done">>,
                                    !.op = "close_tunnel", !.i = 0,
                                    !.pre_ct = Snap(p)])
    /\ used' = used + 1
    /\ UNCHANGED <<server, socks, codec, serial, chans, channels, closed_channels, transport_lock, transport_open,
                   rxbuf, exited, sigint>>

\* for channel, channel_id in self.channels: the list iterator keeps an index into
\* the live list and stops when the index reaches the list's current length.
IterHasNext(p, i) == i < Len(channels[p])

CloseTunnelIter(p, t) ==
    /\ Running(p, t, "ct_iter")
    /\ LET me == Me(p, t)
       IN  SetMe(p, t,
             IF IterHasNext(p, me.i)
             THEN Enter(p, [me EXCEPT !.i = @ + 1], "cc_check", "ct_iter",
                        ChannelIdOf(p, channels[p][me.i + 1]), TRUE, FALSE)
             ELSE [me EXCEPT !.pc = "ct_close"])
    /\ UNCHANGED <<server, socks, codec, serial, chans, channels, closed_channels, transport_lock, transport_open,
                   rxbuf, exited, sigint, used>>

\* self.transport.close()
CloseTransport(p, t) ==
    /\ Running(p, t, "ct_close")
    /\ transport_open' = [transport_open EXCEPT ![p] = FALSE]
    /\ SetMe(p, t, [Me(p, t) EXCEPT !.pc = "ct_ret"])
    /\ UNCHANGED <<server, socks, codec, serial, chans, channels, closed_channels, transport_lock, rxbuf, exited,
                   sigint, used>>

CloseTunnelReturn(p, t) ==
    /\ Running(p, t, "ct_ret")
    /\ SetMe(p, t, Pop(Me(p, t)))
    /\ UNCHANGED <<server, socks, codec, serial, chans, channels, closed_channels, transport_lock, transport_open,
                   rxbuf, exited, sigint, used>>

\* sys.exit(0) in the signal handler: the process and all its daemon threads end.
ProcessExit(p, t) ==
    /\ Running(p, t, "exit")
    /\ exited' = [exited EXCEPT ![p] = TRUE]
    /\ UNCHANGED <<server, socks, codec, serial, chans, channels, closed_channels, transport_lock, transport_open,
                   rxbuf, th, sigint, used>>

\* An exception leaves sigint_handler: nothing in the main thread catches it, the
\* interpreter ends with its daemon threads and the system closes the socket.
UncaughtExit(p) ==
    /\ ~exited[p]
    /\ th[p]["main"].pc = "done" /\ th[p]["main"].res # "none"
    /\ exited' = [exited EXCEPT ![p] = TRUE]
    /\ transport_open' = [transport_open EXCEPT ![p] = FALSE]
    /\ UNCHANGED <<server, socks, codec, serial, chans, channels, closed_channels, transport_lock, rxbuf, th,
                   sigint, used>>

\* ---------------------------------------------------------- Tunnel._monitor
\* A tunnel endpoint is readable when bytes wait in it or its client end is closed.
Readable(p, o) == chans[p][o].to_tunnel # <<>> \/ ~chans[p][o].client_open

ReadyChannels(p) ==
    LET Test(o) == Readable(p, o) IN SelectSeq(channels[p], Test)

\* A select that never reports the transport readable.
TransportNeverReady(p) == FALSE

\* self.transport in r: bytes wait, or the peer has closed its socket (end of stream)
TransportReady(p) == rxbuf[p] # <<>> \/ ~transport_open[Other(p)]

\* ignored_channels = []; read_fds = ...; r = select(read_fds, [], [], 1).
\* select raises on a closed transport and returns nothing on a timeout: in both
\* cases the loop starts over with nothing changed.
MonitorSelect(p) ==
    /\ Starting(p, "mon", "m_select")
    /\ transport_open[p]
    /\ TransportReady(p) \/ ReadyChannels(p) # <<>>
    /\ SetMe(p, "mon", [Me(p, "mon") EXCEPT
            !.pc = IF TransportReady(p) THEN "m_recv" ELSE "m_map",
            !.r = ReadyChannels(p), !.ignored = <<>>, !.tmap = <<>>, !.id = 0])
    /\ UNCHANGED <<server, socks, codec, serial, chans, channels, closed_channels, transport_lock, transport_open,
                   rxbuf, exited, sigint, used>>

\* message = self.recv_message(), then the dispatch on message.msg_type.
\* recv_message blocks until the 7 header bytes and the whole body have come.
DeliverData(p, o, body) ==
    [chans EXCEPT ![p][o].to_client = @ \o body, ![p][o].dlv = @ \o body]

\* recv_message meets the end of the stream inside a header or inside a body.
ShortRead(p) ==
    /\ ~transport_open[Other(p)]
    /\ IF Len(rxbuf[p]) < HDR_SIZE THEN TRUE
       ELSE KnownType(rxbuf[p][1]) /\ Len(rxbuf[p]) < FirstFrameLen(rxbuf[p])

MonitorRecv(p) ==
    /\ Running(p, "mon", "m_recv")
    /\ IF Len(rxbuf[p]) >= HDR_SIZE THEN TRUE ELSE ShortRead(p)
    /\ LET me == Me(p, "mon")
           h == parse_hdr(SubSeq(rxbuf[p], 1, HDR_SIZE))
           body == SubSeq(rxbuf[p], HDR_SIZE + 1, HDR_SIZE + h.length)
           o == id_channel_map(p)[h.channel_id]
       IN  IF ShortRead(p)
           THEN /\ rxbuf' = [rxbuf EXCEPT ![p] = <<>>]
                /\ SetMe(p, "mon", [me EXCEPT !.pc = "m_fatal", !.res = "ValueError"])
                /\ UNCHANGED chans
           ELSE IF ~KnownType(h.msg_type)
           THEN /\ rxbuf' = [rxbuf EXCEPT ![p] = SubSeq(@, HDR_SIZE + 1, Len(@))]
                /\ SetMe(p, "mon", [me EXCEPT !.pc = "m_fatal", !.res = "ValueError"])
                /\ UNCHANGED chans
           ELSE /\ Len(rxbuf[p]) >= HDR_SIZE + h.length
                /\ rxbuf' = [rxbuf EXCEPT ![p] = SubSeq(@, HDR_SIZE + h.length + 1, Len(@))]
                /\ CASE h.msg_type = CloseChannel ->
                          /\ SetMe(p, "mon", Enter(p, me, "cc_check", "m_ignore",
                                                   h.channel_id, FALSE, FALSE))
                          /\ chans' = IF o = 0 THEN chans
                                      ELSE [chans EXCEPT ![p][o].close_rx = TRUE]
                     [] h.msg_type = OpenChannel ->
                          /\ SetMe(p, "mon", Enter(p, me, "oc_check", "m_select",
                                                   h.channel_id, FALSE, FALSE))
                          /\ UNCHANGED chans
                     [] h.msg_type = Data ->
                          IF o = 0 \/ ~chans[p][o].tunnel_open \/ ~chans[p][o].client_open
                          THEN /\ SetMe(p, "mon", Enter(p, me, "cc_check", "m_select",
                                                        h.channel_id, TRUE, FALSE))
                               /\ UNCHANGED chans
                          ELSE /\ chans' = DeliverData(p, o, body)
                               /\ SetMe(p, "mon", [me EXCEPT !.pc = "m_select"])
                     [] OTHER ->
                          /\ SetMe(p, "mon", [me EXCEPT !.pc = "m_select"])
                          /\ UNCHANGED chans
    /\ UNCHANGED <<server, socks, codec, serial, channels, closed_channels, transport_lock, transport_open, exited,
                   sigint, used>>

\* ignored_channels.append(message.channel_id)
MonitorIgnore(p) ==
    /\ Running(p, "mon", "m_ignore")
    /\ SetMe(p, "mon", [Me(p, "mon") EXCEPT !.pc = "m_select",
                                            !.ignored = Append(@, Me(p, "mon").id)])
    /\ UNCHANGED <<server, socks, codec, serial, chans, channels, closed_channels, transport_lock, transport_open,
                   rxbuf, exited, sigint, used>>

\* tiface_channel_map = {channel.tunnel_interface: channel for ... in self.channels}
MonitorMap(p) ==
    /\ Running(p, "mon", "m_map")
    /\ SetMe(p, "mon", [Me(p, "mon") EXCEPT !.pc = "m_chan", !.tmap = channels[p]])
    /\ UNCHANGED <<server, socks, codec, serial, chans, channels, closed_channels, transport_lock, transport_open,
                   rxbuf, exited, sigint, used>>

\* for tunnel_iface in r: data = tunnel_iface.recv(4096); wrap it in a Data message
\* and send it under the lock.  EOF or a read error closes the channel remotely.
MonitorChannel(p) ==
    /\ Running(p, "mon", "m_chan")
    /\ LET me == Me(p, "mon")
       IN  IF me.r = <<>>
           THEN /\ SetMe(p, "mon", [me EXCEPT !.pc = "m_select", !.ch = 0])
                /\ UNCHANGED chans
           ELSE LET o == Head(me.r)
                    cid == ChannelIdOf(p, o)
                    me1 == [me EXCEPT !.r = Tail(@)]
                    n == Min(RecvMax, Len(chans[p][o].to_tunnel))
                IN  IF ~InSeq(me.tmap, o) \/ InSeq(me.ignored, cid)
                    THEN /\ SetMe(p, "mon", me1)
                         /\ UNCHANGED chans
                    ELSE IF ~chans[p][o].tunnel_open \/ chans[p][o].to_tunnel = <<>>
                    THEN /\ ~chans[p][o].tunnel_open \/ ~chans[p][o].client_open
                         /\ SetMe(p, "mon", Enter(p, me1, "cc_check", "m_chan", cid,
                                                  TRUE, FALSE))
                         /\ UNCHANGED chans
                    ELSE /\ chans' = [chans EXCEPT ![p][o].to_tunnel =
                                          SubSeq(@, n + 1, Len(@))]
                         /\ SetMe(p, "mon",
                               EnterSend([me1 EXCEPT !.ch = o],
                                         Msg(SubSeq(chans[p][o].to_tunnel, 1, n),
                                             cid, Data), "m_chan"))
    /\ UNCHANGED <<server, socks, codec, serial, channels, closed_channels, transport_lock, transport_open, rxbuf,
                   exited, sigint, used>>

\* logger.critical(...); os.kill(os.getpid(), signal.SIGINT); the thread ends
MonitorFatal(p) ==
    /\ Running(p, "mon", "m_fatal")
    /\ sigint' = [sigint EXCEPT ![p] = TRUE]
    /\ SetMe(p, "mon", [Me(p, "mon") EXCEPT !.pc = "dead", !.op = "fatal"])
    /\ UNCHANGED <<server, socks, codec, serial, chans, channels, closed_channels, transport_lock, transport_open,
                   rxbuf, exited, used>>

\* ------------------------------------------------- the application's side
\* The application holds a Channel once open_channel_callback has been called with
\* it (open_channel returns it right after).
Handed(p, o) == chans[p][o].opened_cb > 0

\* Channel.send(data): one byte, tagged with the Channel object and its position
\* in what the application wrote to that object.
AppSend(p, o) ==
    /\ ~exited[p] /\ AtRest(p)
    /\ CanOp
    /\ Handed(p, o)
    /\ chans[p][o].client_open /\ chans[p][o].tunnel_open
    /\ chans' = [chans EXCEPT ![p][o].to_tunnel = Append(@, 16 * o + chans[p][o].tx + 1),
                              ![p][o].tx = @ + 1]
    /\ used' = used + 1
    /\ UNCHANGED <<server, socks, codec, serial, channels, closed_channels, transport_lock, transport_open, rxbuf,
                   th, exited, sigint>>

\* Channel.recv(4096): the waiting bytes; b'' at end of stream and on any error
\* (a closed _client_end raises, and recv turns every exception into b'').
AppRecv(p, o) ==
    /\ ~exited[p] /\ AtRest(p)
    /\ Handed(p, o)
    /\ ~chans[p][o].eof /\ ~chans[p][o].app_closed
    /\ LET c == chans[p][o]
           n == Min(RecvMax, Len(c.to_client))
       IN  IF c.client_open /\ c.to_client # <<>>
           THEN chans' = [chans EXCEPT ![p][o].to_client = SubSeq(@, n + 1, Len(@)),
                                       ![p][o].rdlog = @ \o SubSeq(c.to_client, 1, n)]
           ELSE /\ ~c.client_open \/ ~c.tunnel_open
                /\ chans' = [chans EXCEPT ![p][o].eof = TRUE]
    /\ UNCHANGED <<server, socks, codec, serial, channels, closed_channels, transport_lock, transport_open, rxbuf,
                   th, exited, sigint, used>>

\* sock.close() on channel.client_interface (Socks5Proxy.new_connect on a bad request)
AppClose(p, o) ==
    /\ ~exited[p] /\ AtRest(p)
    /\ Handed(p, o)
    /\ CanClose
    /\ chans[p][o].client_open
    /\ chans' = [chans EXCEPT ![p][o].client_open = FALSE,
                              ![p][o].app_closed = TRUE]
    /\ used' = AfterClose
    /\ UNCHANGED <<server, socks, codec, serial, channels, closed_channels, transport_lock, transport_open, rxbuf,
                   th, exited, sigint>>

\* --------------------------------------------- the remote peer, as a sender
\* The frames an arbitrary peer may put on the transport towards p, one at a
\* time.  Opens, data and application writes are counted; closes are not.
PeerSends(p, ty, id) ==
    /\ ~exited[p] /\ AtRest(p)
    /\ transport_open[Other(p)]
    /\ rxbuf[p] = <<>>
    /\ IF ty = CloseChannel THEN CanClose ELSE CanOp
    /\ rxbuf' = [rxbuf EXCEPT ![p] = @ \o serialize(
                    Msg(IF ty = Data THEN <<100 + used + 1>> ELSE <<>>, id, ty))]
    /\ used' = IF ty = CloseChannel THEN AfterClose ELSE used + 1
    /\ UNCHANGED <<server, socks, codec, serial, chans, channels, closed_channels, transport_lock, transport_open,
                   th, exited, sigint>>

\* The remote peer closes its socket, perhaps in the middle of a frame: after the
\* bytes already sent the transport is at its end of stream.
FramePart(part) ==
    IF part = 0 THEN <<>>
    ELSE SubSeq(serialize(Msg(<<104>>, 1, Data)), 1, IF part = 1 THEN 3 ELSE HDR_SIZE)

PeerCloses(p, part) ==
    /\ ~exited[p] /\ AtRest(p)
    /\ transport_open[Other(p)]
    /\ rxbuf' = [rxbuf EXCEPT ![p] = @ \o FramePart(part)]
    /\ transport_open' = [transport_open EXCEPT ![Other(p)] = FALSE]
    /\ UNCHANGED <<server, socks, codec, serial, chans, channels, closed_channels, transport_lock, th, exited,
                   sigint, used>>

\* The remote peer reads one whole frame that was sent to it.  In a serial run
\* it does so between calls.

PeerReceives(p) ==
    /\ serial => Resting(p)
    /\ Len(rxbuf[Other(p)]) >= HDR_SIZE
    /\ Len(rxbuf[Other(p)]) >= FirstFrameLen(rxbuf[Other(p)])
    /\ rxbuf' = [rxbuf EXCEPT ![Other(p)] =
                    SubSeq(@, FirstFrameLen(@) + 1, Len(@))]
    /\ UNCHANGED <<server, socks, codec, serial, chans, channels, closed_channels, transport_lock, transport_open,
                   th, exited, sigint, used>>

\* ------------------------------------------------------- specifications
TunnelStep(p, t) ==
    \/ SendAcquire(p, t) \/ SendIO(p, t) \/ SendRelease(p, t)
    \/ OpenCheck(p, t) \/ OpenNew(p, t) \/ OpenCallback(p, t) \/ OpenReturn(p, t)
    \/ CloseCheck(p, t) \/ CloseLookup(p, t) \/ CloseGet(p, t) \/ CloseRemove(p, t)
    \/ CloseEndpoints(p, t) \/ CloseFinish(p, t) \/ CloseReturn(p, t)

MonitorStep(p) ==
    \/ MonitorSelect(p) \/ MonitorRecv(p) \/ MonitorIgnore(p) \/ MonitorMap(p)
    \/ MonitorChannel(p)

SignalStep(p) ==
    \/ CallCloseTunnel(p, "main") \/ CloseTunnelIter(p, "main")
    \/ CloseTransport(p, "main") \/ CloseTunnelReturn(p, "main")
    \/ ProcessExit(p, "main")

AppStep(p) ==
    \E o \in 1..Len(chans[p]) : AppSend(p, o) \/ AppRecv(p, o) \/ AppClose(p, o)

\* One tunnel (peer A) whose calls run one at a time, against an arbitrary peer.
Init == Start /\ serial = TRUE /\ codec = NoCodec /\ socks = NoSocks /\ server = NoServer

Next ==
    \/ \E id \in IdSet, remote \in BOOLEAN, exc \in BOOLEAN :
          CallOpen("A", "w1", id, remote, exc) \/ CallClose("A", "w1", id, remote, exc)
    \/ CallDone("A", "w1")
    \/ \E t \in {"w1", "mon", "main"} : TunnelStep("A", t)
    \/ MonitorStep("A")
    \/ MonitorFatal("A")
    \/ SignalStep("A")
    \/ AppStep("A")
    \/ \E ty \in Control..(CloseChannel + 1), id \in IdSet : PeerSends("A", ty, id)
    \/ PeerReceives("A")

Spec == Init /\ [][Next]_vars

\* One tunnel (peer A) whose threads interleave between source lines.
\* It starts with channel 1 open: open_channel(1, open_remote=True) has returned
\* and the peer has read the OpenChannel frame.
InitThreads ==
    /\ chans = [p \in Peers |->
                    IF p = "A" THEN <<[NewChannel(1) EXCEPT !.opened_cb = 1]>> ELSE <<>>]
    /\ channels = [p \in Peers |-> IF p = "A" THEN <<1>> ELSE <<>>]
    /\ closed_channels = [p \in Peers |-> [i \in IdSet |-> 0]]
    /\ transport_lock = [p \in Peers |-> "free"]
    /\ transport_open = [p \in Peers |-> TRUE]
    /\ rxbuf = [p \in Peers |-> <<>>]
    /\ th = [p \in Peers |->
                [t \in Threads |-> ThreadInit(IF t = "mon" THEN "m_select" ELSE "idle")]]
    /\ exited = [p \in Peers |-> FALSE]
    /\ sigint = [p \in Peers |-> FALSE]
    /\ used = 0
    /\ serial = FALSE
    /\ codec = NoCodec /\ socks = NoSocks /\ server = NoServer

NextThreads ==
    \/ \E t \in Workers, id \in IdSet :
          CallOpen("A", t, id, TRUE, TRUE) \/ CallClose("A", t, id, TRUE, FALSE)
    \/ \E t \in Workers : CallDone("A", t)
    \/ \E t \in Workers \cup {"mon"} : TunnelStep("A", t)
    \/ MonitorStep("A")
    \/ \E o \in 1..Len(chans["A"]) : AppSend("A", o) \/ AppClose("A", o)
    \/ \E ty \in {Data, OpenChannel, CloseChannel}, id \in IdSet : PeerSends("A", ty, id)

SpecThreads == InitThreads /\ [][NextThreads]_vars

\* ------------------------------------------------------------------ claims
\* What the call of thread t has written to the transport since it was entered.
Emitted(p, me) == SubSeq(rxbuf[Other(p)], me.pre.out + 1, Len(rxbuf[Other(p)]))

\* The channel registered for the call's id when the call was entered (0: none).
OpenAtEntry(p, me) == MapOf(p, me.pre.channels, me.id)

FrameIf(flag, id, ty) == IF flag THEN serialize(Msg(<<>>, id, ty)) ELSE <<>>

\* The call has left the sets and the callback counts of the older channels alone.
SetsUntouched(p, me) ==
    /\ channels[p] = me.pre.channels
    /\ closed_channels[p] = me.pre.closed
    /\ Len(chans[p]) = me.pre.nobj
    /\ \A o \in 1..me.pre.nobj :
          /\ chans[p][o].opened_cb = me.pre.ocb[o]
          /\ chans[p][o].closed_cb = me.pre.ccb[o]

\* C1: in every reachable state no channel id is both in the open set (channels)
\* and in the closed set (closed_channels).
C1_OpenClosedDisjoint ==
    \A p \in Peers : OpenIds(p) \cap ClosedIds(p) = {}

\* C4: once the application's recv on a channel that a received CloseChannel frame
\* closed returns end-of-stream, the application has read every byte the monitor
\* delivered to that channel, in order.
C4_ReadsAllBeforeEOF ==
    \A p \in Peers : \A o \in 1..Len(chans[p]) :
        (chans[p][o].by_frame /\ chans[p][o].eof) => chans[p][o].rdlog = chans[p][o].dlv

\* C5: close_channel(id, close_remote, strict) for an id that is in the open set
\* returns with the id's channel out of the open set, both endpoints closed, one
\* CloseChannel frame written iff close_remote, close_channel_callback called once
\* with the channel, and the channel recorded in the closed set.
C5_CloseOpenChannel ==
    \A p \in Peers : \A t \in Threads :
        LET me == th[p][t]
            o == OpenAtEntry(p, me)
        IN  (me.pc = "cc_ret" /\ o # 0) =>
               /\ ~InOpenSet(p, me.id)
               /\ ~chans[p][o].client_open /\ ~chans[p][o].tunnel_open
               /\ Emitted(p, me) = FrameIf(me.remote, me.id, CloseChannel)
               /\ chans[p][o].closed_cb = me.pre.ccb[o] + 1
               /\ closed_channels[p][me.id] = o

\* C6: close_channel(id) for an id that is in the closed set returns with the open
\* set, the closed set and every callback count unchanged, having written exactly
\* one CloseChannel frame when close_remote is true and nothing otherwise; it does
\* not raise.
C6_CloseIdempotent ==
    \A p \in Peers : \A t \in Threads :
        LET me == th[p][t]
        IN  /\ (me.pc = "cc_ret" /\ me.pre.closed[me.id] # 0) =>
                  /\ SetsUntouched(p, me)
                  /\ Emitted(p, me) = FrameIf(me.remote, me.id, CloseChannel)
            /\ (me.pc = "done" /\ me.op = "close_channel" /\ me.res # "none") =>
                  me.pre.closed[me.id] = 0

C6_Witness ==
    \E p \in Peers : \E t \in Threads :
        LET me == th[p][t]
        IN  /\ me.pc = "cc_ret" /\ me.pre.closed[me.id] # 0
            /\ me.remote /\ Emitted(p, me) # <<>>

\* The CloseChannel frames close_tunnel has to write: one per channel of the list.
RECURSIVE CloseFrames(_, _)
CloseFrames(p, list) ==
    IF list = <<>> THEN <<>>
    ELSE serialize(Msg(<<>>, ChannelIdOf(p, Head(list)), CloseChannel))
            \o CloseFrames(p, Tail(list))

\* C7: when close_tunnel returns, the open set is empty, every channel that was
\* open at the call has both endpoints closed and is in the closed set, one
\* CloseChannel frame per such channel was written, and the transport is closed.
C7_CloseTunnelClosesAll ==
    \A p \in Peers :
        LET me == th[p]["main"]
            was == me.pre_ct.channels
        IN  me.pc = "ct_ret" =>
               /\ channels[p] = <<>>
               /\ \A k \in 1..Len(was) :
                     /\ ~chans[p][was[k]].client_open
                     /\ ~chans[p][was[k]].tunnel_open
                     /\ closed_channels[p][ChannelIdOf(p, was[k])] = was[k]
               /\ SubSeq(rxbuf[Other(p)], me.pre_ct.out + 1, Len(rxbuf[Other(p)]))
                     = CloseFrames(p, was)
               /\ ~transport_open[p]

\* C8: open_channel(id, open_remote, strict) for an id that is not in the open set
\* (closed before or never opened) returns a new Channel with two open, empty
\* endpoints, appended to the open set; exactly one OpenChannel frame was written
\* iff open_remote; open_channel_callback was called exactly once with it; and the
\* call does not raise.
C8_OpenNewChannel ==
    \A p \in Peers : \A t \in Threads :
        LET me == th[p][t]
            o == me.pre.nobj + 1
        IN  /\ (me.pc = "oc_ret" /\ OpenAtEntry(p, me) = 0) =>
                  /\ Len(chans[p]) = o /\ me.retv = o
                  /\ chans[p][o] = [NewChannel(me.id) EXCEPT !.opened_cb = 1]
                  /\ channels[p] = Append(me.pre.channels, o)
                  /\ closed_channels[p] = me.pre.closed
                  /\ Emitted(p, me) = FrameIf(me.remote, me.id, OpenChannel)
                  /\ \A q \in 1..me.pre.nobj :
                        /\ chans[p][q].opened_cb = me.pre.ocb[q]
                        /\ chans[p][q].closed_cb = me.pre.ccb[q]
            /\ (me.pc = "done" /\ me.op = "open_channel" /\ me.res # "none") =>
                  OpenAtEntry(p, me) # 0

C8_Witness ==
    \E p \in Peers : \E t \in Threads :
        LET me == th[p][t]
        IN  /\ me.pc = "oc_ret" /\ OpenAtEntry(p, me) = 0
            /\ me.pre.closed[me.id] # 0 /\ me.remote

\* C9: open_channel(id) for an id that is in the open set changes nothing: with
\* strict it raises ValueError, without strict it returns the channel registered
\* for the id; no channel is created, no frame is written, no callback is called,
\* and the open and closed sets stay as they were.  The monitor's call for a
\* received OpenChannel frame is one of these calls.
C9_OpenAlreadyOpen ==
    \A p \in Peers : \A t \in Threads :
        LET me == th[p][t]
            o == OpenAtEntry(p, me)
        IN  /\ (me.pc = "oc_ret" /\ o # 0) =>
                  /\ ~me.exc /\ me.retv = o
                  /\ SetsUntouched(p, me) /\ Emitted(p, me) = <<>>
            /\ (me.pc = "done" /\ me.op = "open_channel" /\ me.res # "none") =>
                  /\ me.exc /\ me.res = "ValueError" /\ o # 0
                  /\ SetsUntouched(p, me) /\ Emitted(p, me) = <<>>
            /\ (me.pc \in {"oc_new", "oc_cb"}) => o = 0

C9_Witness ==
    \E p \in Peers :
        LET me == th[p]["mon"]
        IN  me.pc = "oc_ret" /\ OpenAtEntry(p, me) # 0

\* What is left of a byte stream after its whole frames are taken off the front.
RECURSIVE Remainder(_)
Remainder(buf) ==
    IF Len(buf) < HDR_SIZE \/ Len(buf) < FirstFrameLen(buf)
    THEN buf
    ELSE Remainder(SubSeq(buf, FirstFrameLen(buf) + 1, Len(buf)))

IsFrame(buf) ==
    /\ Len(buf) >= HDR_SIZE
    /\ Len(buf) = FirstFrameLen(buf)
    /\ parse_hdr(SubSeq(buf, 1, HDR_SIZE)).msg_type \in {Data, OpenChannel, CloseChannel}

Writers(p) == {t \in Threads : th[p][t].pc \in {"s_io", "s_rel"}}

\* C3: under every interleaving of the monitor and the calling threads at most one
\* thread is writing to the transport, the writing thread holds transport_lock, and
\* the bytes written so far are whole frames followed by the part of the one frame
\* that is being written.
C3_WritesSerialized ==
    \A p \in Peers :
        /\ Cardinality(Writers(p)) <= 1
        /\ \A t \in Writers(p) : transport_lock[p] = t
        /\ IF \E t \in Writers(p) : th[p][t].pc = "s_io"
           THEN \A t \in Writers(p) :
                    IsFrame(Remainder(rxbuf[Other(p)]) \o th[p][t].sbuf)
           ELSE Remainder(rxbuf[Other(p)]) = <<>>

C3_Witness ==
    \E p \in Peers : \E t, u \in Threads :
        /\ t # u
        /\ th[p][t].pc = "s_io" /\ Remainder(rxbuf[Other(p)]) # <<>>
        /\ th[p][u].pc = "s_acq"

\* C10: in every reachable state, also while threads are inside open_channel at
\* the same time, no two entries of the open set have the same channel id.
C10_OneChannelPerId ==
    \A p \in Peers : \A j, k \in 1..Len(channels[p]) :
        ChannelIdOf(p, channels[p][j]) = ChannelIdOf(p, channels[p][k]) => j = k

\* ------------------------------------------------------ two tunnels, end to end
\* Peer A's tunnel and peer B's tunnel on one transport, threads interleaving.
\* Channel 1 is open on both sides at the start.  A's worker opens and closes
\* channels with the remote notification, A's application writes, B's
\* application reads.
InitE2E ==
    /\ chans = [p \in Peers |-> <<[NewChannel(1) EXCEPT !.opened_cb = 1]>>]
    /\ channels = [p \in Peers |-> <<1>>]
    /\ closed_channels = [p \in Peers |-> [i \in IdSet |-> 0]]
    /\ transport_lock = [p \in Peers |-> "free"]
    /\ transport_open = [p \in Peers |-> TRUE]
    /\ rxbuf = [p \in Peers |-> <<>>]
    /\ th = [p \in Peers |->
                [t \in Threads |-> ThreadInit(IF t = "mon" THEN "m_select" ELSE "idle")]]
    /\ exited = [p \in Peers |-> FALSE]
    /\ sigint = [p \in Peers |-> FALSE]
    /\ used = 0
    /\ serial = FALSE
    /\ codec = NoCodec /\ socks = NoSocks /\ server = NoServer

NextE2E ==
    \/ \E id \in IdSet :
          CallOpen("A", "w1", id, TRUE, TRUE) \/ CallClose("A", "w1", id, TRUE, FALSE)
    \/ CallDone("A", "w1")
    \/ \E t \in {"w1", "mon"} : TunnelStep("A", t)
    \/ TunnelStep("B", "mon")
    \/ \E p \in Peers : MonitorStep(p)
    \/ \E o \in 1..Len(chans["A"]) : AppSend("A", o)
    \/ \E o \in 1..Len(chans["B"]) : AppRecv("B", o)

SpecE2E == InitE2E /\ [][NextE2E]_vars

\* The o-th Channel object of p is the UseOf(p, o)-th channel p has opened for its id.
UseOf(p, o) ==
    Cardinality({q \in 1..o : ChannelIdOf(p, q) = ChannelIdOf(p, o)})

\* What A's application has written to its Channel object o, as the tagged bytes.
Written(o) == [k \in 1..chans["A"][o].tx |-> 16 * o + k]

IsPrefix(s, w) == Len(s) <= Len(w) /\ \A k \in 1..Len(s) : s[k] = w[k]

\* C2: at every moment, what B's application has read from a channel is a prefix
\* of what A's application wrote to the channel of the same id and the same use
\* of that id: nothing reordered, duplicated, or taken from another channel or
\* from an earlier use of the id.
C2_FifoPrefix ==
    \A ob \in 1..Len(chans["B"]) :
        chans["B"][ob].rdlog # <<>> =>
            \E oa \in 1..Len(chans["A"]) :
                /\ ChannelIdOf("A", oa) = ChannelIdOf("B", ob)
                /\ UseOf("A", oa) = UseOf("B", ob)
                /\ IsPrefix(chans["B"][ob].rdlog, Written(oa))

\* ------------------------------------------------------------ the frame codec
\* Message(body, id, type).serialize(), a damaged copy of it, and Message.parse.
ByteVals == {0, 104, 255}

CodecIds == {0, 1, 255, 256, 4660, 65535}

Hello == <<104, 101, 108, 108, 111>>

Bodies == UNION {[1..n -> ByteVals] : n \in 0..MaxBody} \cup {Hello}

InitCodec ==
    /\ Start /\ serial = TRUE /\ socks = NoSocks /\ server = NoServer
    /\ codec \in {[stage |-> "msg", msg |-> Msg(b, i, ty), data |-> <<>>, intact |-> TRUE,
                   res |-> [err |-> "none", msg |-> NoMsg], hdr |-> "none"] :
                        b \in Bodies, i \in CodecIds,
                        ty \in {Control, Data, OpenChannel, CloseChannel}}

CodecSerialize ==
    /\ codec.stage = "msg"
    /\ codec' = [codec EXCEPT !.stage = "bytes", !.data = serialize(codec.msg)]
    /\ UNCHANGED <<chans, channels, closed_channels, transport_lock, transport_open, rxbuf,
                   th, exited, sigint, used, serial, socks, server>>

\* What a broken sender or a cut transport can make of a frame.
Damaged(data) ==
    {SubSeq(data, 1, k) : k \in 0..(Len(data) - 1)}
        \cup {Append(data, b) : b \in ByteVals}
        \cup {[data EXCEPT ![1] = ty] : ty \in {CloseChannel + 1, 255}}
        \cup {[data EXCEPT ![HDR_SIZE] = (@ + 1) % 256]}

CodecDamage ==
    /\ codec.stage = "bytes"
    /\ \E d \in Damaged(codec.data) :
          codec' = [codec EXCEPT !.stage = "damaged", !.data = d, !.intact = FALSE]
    /\ UNCHANGED <<chans, channels, closed_channels, transport_lock, transport_open, rxbuf,
                   th, exited, sigint, used, serial, socks, server>>

CodecParse ==
    /\ codec.stage \in {"bytes", "damaged"}
    /\ codec' = [codec EXCEPT !.stage = "parsed", !.res = parse(codec.data),
                    !.hdr = parse_hdr_raises(SubSeq(codec.data, 1,
                                                    Min(HDR_SIZE, Len(codec.data))))]
    /\ UNCHANGED <<chans, channels, closed_channels, transport_lock, transport_open, rxbuf,
                   th, exited, sigint, used, serial, socks, server>>

NextCodec == CodecSerialize \/ CodecDamage \/ CodecParse

SpecCodec == InitCodec /\ [][NextCodec]_vars

\* The length field of a byte string that has a whole header.
LengthField(data) == data[4] * 16777216 + data[5] * 65536 + data[6] * 256 + data[7]

\* C11: parse(serialize(m)) is m, type, id and body, for each of the four types,
\* ids over the whole 16-bit range and every body; the serialized form is the
\* type byte, the id big-endian in two bytes, the body length big-endian in four
\* bytes, then the body; (Data, 0x1234, "hello") is 01 12 34 00 00 00 05 68 65 6c 6c 6f.
C11_RoundTrip ==
    (codec.stage = "parsed" /\ codec.intact) =>
        /\ codec.res.err = "none"
        /\ codec.res.msg = codec.msg
        /\ Len(codec.data) = HDR_SIZE + Len(codec.msg.body)
        /\ codec.data[1] = codec.msg.msg_type
        /\ codec.data[2] * 256 + codec.data[3] = codec.msg.channel_id
        /\ LengthField(codec.data) = Len(codec.msg.body)
        /\ \A k \in 1..Len(codec.data) : codec.data[k] \in 0..255
        /\ SubSeq(codec.data, HDR_SIZE + 1, Len(codec.data)) = codec.msg.body
        /\ codec.msg = Msg(Hello, 4660, Data) =>
              codec.data = <<1, 18, 52, 0, 0, 0, 5, 104, 101, 108, 108, 111>>

C11_Witness ==
    /\ codec.stage = "parsed" /\ codec.intact
    /\ codec.msg = Msg(Hello, 4660, Data)
    /\ codec.res.msg = codec.msg

\* C12: parse accepts only a well-formed frame: it fails on fewer than 7 bytes, on
\* a length field that differs from the number of body bytes, and on a type byte
\* outside 0..3 (and so does parse_hdr); a frame it accepts has a known type and
\* a length field equal to its body size.
C12_ParseRejectsMalformed ==
    codec.stage = "parsed" =>
        LET data == codec.data
            short == Len(data) < HDR_SIZE
        IN  /\ short => codec.res.err # "none"
            /\ (~short /\ LengthField(data) # Len(data) - HDR_SIZE) => codec.res.err # "none"
            /\ (~short /\ data[1] \notin 0..3) =>
                  codec.res.err # "none" /\ codec.hdr # "none"
            /\ codec.res.err = "none" =>
                  /\ ~short
                  /\ codec.res.msg.msg_type \in 0..3
                  /\ LengthField(data) = Len(codec.res.msg.body)
                  /\ codec.res.msg.body = SubSeq(data, HDR_SIZE + 1, Len(data))

C12_Witness ==
    /\ codec.stage = "parsed" /\ ~codec.intact
    /\ Len(codec.data) >= HDR_SIZE /\ codec.data[1] \notin 0..3
    /\ codec.res.err = "ValueError" /\ codec.hdr = "ValueError"

\* ------------------------------------------------- opening a channel, end to end
\* Both tunnels on one transport that stays up.  Id 1 was opened and closed on
\* both peers before; id 2 was never used.  A's worker opens channels with the
\* remote notification and A's application writes to them; nobody closes.
ClosedChannel(channel_id) ==
    [NewChannel(channel_id) EXCEPT !.client_open = FALSE, !.tunnel_open = FALSE,
                                   !.opened_cb = 1, !.closed_cb = 1,
                                   !.close_sent = TRUE]

InitOpen ==
    /\ chans = [p \in Peers |-> <<ClosedChannel(1)>>]
    /\ channels = [p \in Peers |-> <<>>]
    /\ closed_channels = [p \in Peers |-> [i \in IdSet |-> IF i = 1 THEN 1 ELSE 0]]
    /\ transport_lock = [p \in Peers |-> "free"]
    /\ transport_open = [p \in Peers |-> TRUE]
    /\ rxbuf = [p \in Peers |-> <<>>]
    /\ th = [p \in Peers |->
                [t \in Threads |-> ThreadInit(IF t = "mon" THEN "m_select" ELSE "idle")]]
    /\ exited = [p \in Peers |-> FALSE]
    /\ sigint = [p \in Peers |-> FALSE]
    /\ used = 0
    /\ serial = FALSE
    /\ codec = NoCodec /\ socks = NoSocks /\ server = NoServer

\* The steps of thread t inside open_channel and inside a transport write.
OpenSteps(p, t) ==
    \/ SendAcquire(p, t) \/ SendIO(p, t) \/ SendRelease(p, t)
    \/ OpenCheck(p, t) \/ OpenNew(p, t) \/ OpenCallback(p, t) \/ OpenReturn(p, t)

\* The monitor's loop where no CloseChannel frame arrives.
MonitorOpenSteps(p) ==
    \/ MonitorSelect(p) \/ MonitorRecv(p) \/ MonitorMap(p) \/ MonitorChannel(p)
    \/ OpenSteps(p, "mon")

WorkerOpenSteps(p, t) == CallDone(p, t) \/ OpenSteps(p, t)

NextOpen ==
    \/ \E id \in IdSet : CallOpen("A", "w1", id, TRUE, TRUE)
    \/ WorkerOpenSteps("A", "w1")
    \/ \E p \in Peers : MonitorOpenSteps(p)
    \/ \E o \in 1..Len(chans["A"]) : AppSend("A", o)
    \/ \E o \in 1..Len(chans["B"]) : AppRecv("B", o)

\* Every thread that can take a step is scheduled in the end.
SpecOpen ==
    /\ InitOpen /\ [][NextOpen]_vars
    /\ WF_vars(WorkerOpenSteps("A", "w1"))
    /\ WF_vars(MonitorOpenSteps("A"))
    /\ WF_vars(MonitorOpenSteps("B"))

\* id is in p's open set and open_channel_callback was called once with its channel.
OpenedOnce(p, id) ==
    IF InOpenSet(p, id) THEN chans[p][id_channel_map(p)[id]].opened_cb = 1 ELSE FALSE

\* A's application has written at least k bytes to its Channel object oa.
Wrote(oa, k) == IF Len(chans["A"]) >= oa THEN chans["A"][oa].tx >= k ELSE FALSE

\* Byte k that A's application wrote to its object oa has reached the application
\* endpoint of a channel of the same id at B.
Arrived(oa, k) ==
    \E ob \in 1..Len(chans["B"]) :
        /\ oa <= Len(chans["A"])
        /\ ChannelIdOf("B", ob) = ChannelIdOf("A", oa)
        /\ InSeq(chans["B"][ob].dlv, 16 * oa + k)

\* C13: when A's open_channel(id, open_remote=True) creates a channel for an id
\* that is open at neither peer and the transport stays up, B eventually has the
\* id in its open set with open_channel_callback called exactly once for that
\* channel, and every byte A's application writes to the channel eventually is
\* readable on B's application endpoint of the channel of that id.
C13_OpenPropagates ==
    /\ \A id \in IdSet :
          (th["A"]["w1"].pc = "oc_new" /\ th["A"]["w1"].id = id /\ ~InOpenSet("B", id))
             ~> OpenedOnce("B", id)
    /\ \A oa \in 2..(MaxOps + 2) : \A k \in 1..(MaxOps + 1) :
          Wrote(oa, k) ~> Arrived(oa, k)
    /\ [](\A p \in Peers : \A o \in 1..Len(chans[p]) : chans[p][o].opened_cb <= 1)

C13_Witness ==
    /\ OpenedOnce("B", 1) /\ InClosedSet("B", 1)
    /\ \E oa \in 2..Len(chans["A"]) : ChannelIdOf("A", oa) = 1 /\ Arrived(oa, 1)

\* The monitor is writing a Data frame with bytes it read from Channel object o.
WritingData(p, o) ==
    /\ th[p]["mon"].pc = "s_io"
    /\ th[p]["mon"].stack # <<>> /\ Head(th[p]["mon"].stack) = "m_chan"
    /\ th[p]["mon"].ch = o

\* C14: on the transport a peer writes, the frames of one channel are ordered:
\* a Data frame of a channel is written only after open_channel has finished
\* opening it (the OpenChannel frame, if any, is out), and never after the
\* CloseChannel frame of that channel has been written, whatever the interleaving
\* of the monitor and the worker threads.
C14_ControlDataOrdered ==
    \A p \in Peers : \A o \in 1..Len(chans[p]) :
        WritingData(p, o) => chans[p][o].opened_cb > 0 /\ ~chans[p][o].close_sent

\* A thread of p is inside close_channel for Channel object o.
Closing(p, o) ==
    \E t \in Threads : th[p][t].ch = o /\ th[p][t].pc \in {"cc_remove", "cc_close", "cc_finish"}

\* C15: a failure of one channel (EOF or error on its endpoints or on its proxied
\* socket, which make the monitor or a worker call close_channel for it) stays
\* with that channel under every interleaving: the monitor keeps running, the
\* transport stays open, and a channel leaves the open set only by its own close.
C15_FailureContained ==
    \A p \in Peers :
        /\ th[p]["mon"].pc # "dead"
        /\ transport_open[p]
        /\ \A o \in 1..Len(chans[p]) :
              (chans[p][o].client_open /\ chans[p][o].tunnel_open /\ ~Closing(p, o))
                 => InSeq(channels[p], o)

\* --------------------------------------------------- failures of the transport
\* One tunnel, its calls running one at a time, on a transport that can fail: the peer may
\* send a frame of an unknown type or close its socket, in the middle of a frame
\* too.  Channel 1 is open, channel 2 was opened and closed before.  A worker
\* opens channels and may call close_tunnel; the application writes and closes.
InitFatal ==
    /\ chans = [p \in Peers |->
                   IF p = "A" THEN <<[NewChannel(1) EXCEPT !.opened_cb = 1], ClosedChannel(2)>>
                   ELSE <<>>]
    /\ channels = [p \in Peers |-> IF p = "A" THEN <<1>> ELSE <<>>]
    /\ closed_channels = [p \in Peers |-> [i \in IdSet |-> IF p = "A" /\ i = 2 THEN 2 ELSE 0]]
    /\ transport_lock = [p \in Peers |-> "free"]
    /\ transport_open = [p \in Peers |-> TRUE]
    /\ rxbuf = [p \in Peers |-> <<>>]
    /\ th = [p \in Peers |->
                [t \in Threads |-> ThreadInit(IF t = "mon" THEN "m_select" ELSE "idle")]]
    /\ exited = [p \in Peers |-> FALSE]
    /\ sigint = [p \in Peers |-> FALSE]
    /\ used = 0
    /\ serial = TRUE
    /\ codec = NoCodec /\ socks = NoSocks /\ server = NoServer

\* The main thread inside sigint_handler.
HandlerSteps(p) ==
    \/ CloseTunnelIter(p, "main") \/ CloseTransport(p, "main")
    \/ CloseTunnelReturn(p, "main") \/ ProcessExit(p, "main")
    \/ TunnelStep(p, "main") \/ UncaughtExit(p)

\* A worker inside open_channel or close_tunnel.
WorkerFatalSteps(p, t) ==
    \/ CallDone(p, t) \/ TunnelStep(p, t)
    \/ CloseTunnelIter(p, t) \/ CloseTransport(p, t) \/ CloseTunnelReturn(p, t)

MonitorAllSteps(p) == MonitorStep(p) \/ MonitorFatal(p) \/ TunnelStep(p, "mon")

NextFatal ==
    \/ \E id \in IdSet : CallOpen("A", "w1", id, TRUE, TRUE)
    \/ CallCloseTunnelApi("A", "w1")
    \/ WorkerFatalSteps("A", "w1")
    \/ MonitorAllSteps("A")
    \/ SignalDelivered("A")
    \/ HandlerSteps("A")
    \/ \E o \in 1..Len(chans["A"]) : AppSend("A", o) \/ AppClose("A", o)
    \/ \E ty \in {Data, CloseChannel, CloseChannel + 1}, id \in IdSet : PeerSends("A", ty, id)
    \/ \E part \in 0..2 : PeerCloses("A", part)
    \/ PeerReceives("A")

SpecFatal ==
    /\ InitFatal /\ [][NextFatal]_vars
    /\ WF_vars(WorkerFatalSteps("A", "w1"))
    /\ WF_vars(MonitorAllSteps("A"))
    /\ WF_vars(SignalDelivered("A"))
    /\ WF_vars(HandlerSteps("A"))

\* recv_message raised: the monitor goes from the read to its fatal exit.
ReadFails(p) == th[p]["mon"].pc = "m_recv" /\ th'[p]["mon"].pc = "m_fatal"

\* C16: when a read of the transport fails (end of stream inside a header or a
\* body, or an unknown type byte) the monitor delivers nothing of that frame to a
\* channel, signals the teardown, which in the end closes the transport, and once
\* it has stopped it reads no further byte of the transport.
C16_ReadFailureFatal ==
    /\ [][\A p \in Peers : ReadFails(p) => chans' = chans]_vars
    /\ [][\A p \in Peers : th[p]["mon"].pc = "dead" =>
              th'[p]["mon"].pc = "dead" /\ Len(rxbuf'[p]) >= Len(rxbuf[p])]_vars
    /\ \A p \in Peers :
          (th[p]["mon"].pc = "m_fatal" /\ th[p]["mon"].res = "ValueError")
             ~> ~transport_open[p]

\* C17: the monitor never ends on a failed write of the transport without having
\* signalled the teardown, whichever frame it was writing.
C17_WriteFailureFatal ==
    \A p \in Peers :
        (th[p]["mon"].pc = "dead" /\ th[p]["mon"].res = "OSError")
            => th[p]["mon"].op = "fatal"

\* C18: after close_tunnel has closed the transport the monitor eventually
\* terminates (and with it a wait() on the monitor thread).
C18_MonitorStopsAfterClose ==
    \A p \in Peers :
        (\E t \in Threads : th[p][t].pc = "ct_ret")
            ~> (th[p]["mon"].pc = "dead" \/ exited[p])

\* ------------------------------------------- SOCKS5 sessions on the Relay
\* Socks5Proxy.new_connect and Relay._handle_channel, run by one thread per
\* channel the Server opened.  The thread reads and writes the raw socket
\* channel.client_interface, so a closed socket raises instead of giving b''.
Zeros(n) == [k \in 1..n |-> 0]

Greeting == <<5, 1, 0>>

\* CONNECT requests of a SOCKS client: a good one for each address type, a wrong
\* version, a wrong command, an unknown address type (0x09), and cut ones.
Requests ==
    {<<5, 1, 0, 1, 127, 0, 0, 1, 0, 80>>,
     <<4, 1, 0, 1, 127, 0, 0, 1, 0, 80>>,
     <<5, 2, 0, 1, 127, 0, 0, 1, 0, 80>>,
     <<5, 1, 0, 9, 127, 0, 0, 1, 0, 80>>,
     <<5, 1, 0, 3, 3, 104, 104, 104, 0, 80>>,
     <<5, 1, 0, 3, 4, 104, 104, 104, 104, 0>>,
     <<5, 1, 0, 3, 1, 255, 0, 80, 0, 0>>,
     <<5, 1, 0, 4>> \o Zeros(15) \o <<1, 0, 80>>,
     <<5, 1, 0, 4, 0, 0, 0, 0, 0, 1>>,
     <<5, 1, 0, 1>>}

\* A request parser that takes any command for CONNECT.
ParseRequestAnyCmd(data) ==
    IF Len(data) < 10 \/ data[1] # 5 THEN [kind |-> "bad", af |-> 0]
    ELSE IF data[4] \in {1, 3} THEN [kind |-> "dial", af |-> 1]
    ELSE IF data[4] = 4 THEN [kind |-> "dial", af |-> 4]
    ELSE [kind |-> "atyp", af |-> 0]

\* new_connect from the length test to the call of _remote_connect:
\*   "bad"   reply 05 01 00 00, close, raise ValueError
\*   "atyp"  reply 05 08 00 00, close, raise ValueError
\*   "ValueError" / "struct.error": inet_ntop, decode or unpack raised on a cut
\*           address (UnicodeDecodeError is a ValueError); nothing is replied
\*   "dial"  _remote_connect is called; af is the ATYP of its reply
\* The requests of the model hold ASCII bytes and 0xFF, which no UTF-8 text holds.
ParseRequest(data) ==
    IF Len(data) < 10 THEN [kind |-> "bad", af |-> 0]
    ELSE IF data[1] # 5 \/ data[2] # 1 THEN [kind |-> "bad", af |-> 0]
    ELSE IF data[4] = 1 THEN [kind |-> "dial", af |-> 1]
    ELSE IF data[4] = 3
         THEN LET length == data[5]
                  name == SubSeq(data, 6, Min(5 + length, Len(data)))
              IN  IF \E k \in 1..Len(name) : name[k] = 255
                  THEN [kind |-> "ValueError", af |-> 0]
                  ELSE IF Len(data) < length + 7
                  THEN [kind |-> "struct.error", af |-> 0]
                  ELSE [kind |-> "dial", af |-> 1]
    ELSE IF data[4] = 4
         THEN IF Len(data) < 20 THEN [kind |-> "ValueError", af |-> 0]
              ELSE IF Len(data) < 22 THEN [kind |-> "struct.error", af |-> 0]
              ELSE [kind |-> "dial", af |-> 4]
    ELSE [kind |-> "atyp", af |-> 0]

RejectReply(data) ==
    IF ParseRequest(data).kind = "atyp" THEN <<5, 8, 0, 0>> ELSE <<5, 1, 0, 0>>

\* remote_socket.getsockname()[:2] of a connected socket, packed (an address of
\* the Relay and an ephemeral port)
BoundAddr(af) == IF af = 1 THEN <<10, 0, 0, 2>> ELSE Zeros(15) \o <<1>>

BoundPort == <<18, 52>>

\* _remote_connect's reply: 05, 00 or 05, 00, atyp, then local_addr packed
ConnectReply(af, ok) ==
    IF ok THEN <<5, 0, 0, af>> \o BoundAddr(af) \o BoundPort
    ELSE <<5, 5, 0, af>> \o Zeros(IF af = 1 THEN 4 ELSE 16) \o <<0, 0>>

SessionOf(o) == {t \in Workers : socks[t].ch = o}

\* Relay.open_channel_callback: Thread(target=self._handle_channel, args=(channel,))
StartHandler(p, t, o) ==
    /\ ~exited[p] /\ AtRest(p)
    /\ th[p][t].pc = "idle" /\ socks[t].stage = "none"
    /\ o \in 1..Len(chans[p])
    /\ Handed(p, o) /\ SessionOf(o) = {}
    /\ socks' = [socks EXCEPT ![t] = [NoSession EXCEPT !.ch = o,
                                                        !.stage = "AwaitingGreeting"]]
    /\ UNCHANGED <<server, codec, serial, chans, channels, closed_channels, transport_lock,
                   transport_open, rxbuf, th, exited, sigint, used>>

SockRaises(s, kind) == [s EXCEPT !.stage = "Raised", !.err = kind]

\* sock.recv(4096) for the greeting (whatever it holds) and for the request,
\* which is parsed up to the reply or the dial that follows.
AfterRequest(s, data) ==
    LET k == ParseRequest(data)
    IN  IF k.kind \in {"bad", "atyp"} THEN [s EXCEPT !.stage = "Reject", !.req = data]
        ELSE IF k.kind = "dial"
        THEN [s EXCEPT !.stage = "Dialing", !.req = data, !.af = k.af]
        ELSE [SockRaises(s, k.kind) EXCEPT !.req = data]

SocksRecv(p, t) ==
    /\ ~exited[p] /\ AtRest(p)
    /\ th[p][t].pc = "idle"
    /\ socks[t].stage \in {"AwaitingGreeting", "AwaitingRequest"}
    /\ LET s == socks[t]
           o == s.ch
           c == chans[p][o]
           n == Min(RecvMax, Len(c.to_client))
           data == SubSeq(c.to_client, 1, n)
           got == IF s.stage = "AwaitingGreeting"
                  THEN [s EXCEPT !.stage = "Method"]
                  ELSE AfterRequest(s, data)
       IN  IF ~c.client_open
           THEN /\ socks' = [socks EXCEPT ![t] = SockRaises(s, "OSError")]
                /\ UNCHANGED chans
           ELSE /\ c.to_client # <<>> \/ ~c.tunnel_open
                /\ socks' = [socks EXCEPT ![t] = got]
                /\ chans' = [chans EXCEPT ![p][o].to_client = SubSeq(@, n + 1, Len(@))]
    /\ UNCHANGED <<server, codec, serial, channels, closed_channels, transport_lock, transport_open,
                   rxbuf, th, exited, sigint, used>>

\* sock.sendall(data) / sock.send(data) on channel.client_interface
SockSend(p, t, data, then) ==
    LET s == socks[t]
        o == s.ch
        c == chans[p][o]
    IN  IF c.client_open /\ c.tunnel_open
        THEN /\ chans' = [chans EXCEPT ![p][o].to_tunnel = @ \o data]
             /\ socks' = [socks EXCEPT ![t] = then]
        ELSE /\ socks' = [socks EXCEPT ![t] = SockRaises(s, "OSError")]
             /\ UNCHANGED chans

\* sock.sendall(struct.pack('BB', 0x05, 0x00))
SocksMethod(p, t) ==
    /\ ~exited[p] /\ AtRest(p)
    /\ th[p][t].pc = "idle" /\ socks[t].stage = "Method"
    /\ SockSend(p, t, <<5, 0>>, [socks[t] EXCEPT !.stage = "AwaitingRequest"])
    /\ UNCHANGED <<server, codec, serial, channels, closed_channels, transport_lock, transport_open,
                   rxbuf, th, exited, sigint, used>>

\* sock.sendall(struct.pack('BBBB', 0x05, 0x01 or 0x08, 0x00, 0x00))
SocksReject(p, t) ==
    /\ ~exited[p] /\ AtRest(p)
    /\ th[p][t].pc = "idle" /\ socks[t].stage = "Reject"
    /\ SockSend(p, t, RejectReply(socks[t].req),
                [socks[t] EXCEPT !.stage = "RejectClose",
                                 !.reply = RejectReply(socks[t].req)])
    /\ UNCHANGED <<server, codec, serial, channels, closed_channels, transport_lock, transport_open,
                   rxbuf, th, exited, sigint, used>>

\* sock.close(); raise ValueError(...)
SocksRejectClose(p, t) ==
    /\ ~exited[p] /\ AtRest(p)
    /\ th[p][t].pc = "idle" /\ socks[t].stage = "RejectClose"
    /\ chans' = [chans EXCEPT ![p][socks[t].ch].client_open = FALSE,
                              ![p][socks[t].ch].app_closed = TRUE]
    /\ socks' = [socks EXCEPT ![t] = SockRaises(socks[t], "ValueError")]
    /\ UNCHANGED <<server, codec, serial, channels, closed_channels, transport_lock, transport_open,
                   rxbuf, th, exited, sigint, used>>

\* _remote_connect: remote_socket.connect((remote_host, remote_port)) in its try
SocksDial(p, t, ok) ==
    /\ ~exited[p] /\ AtRest(p)
    /\ th[p][t].pc = "idle" /\ socks[t].stage = "Dialing"
    /\ socks' = [socks EXCEPT ![t].stage = "Reply", ![t].dials = @ + 1,
                              ![t].dial = IF ok THEN "ok" ELSE "failed"]
    /\ UNCHANGED <<server, codec, serial, chans, channels, closed_channels, transport_lock,
                   transport_open, rxbuf, th, exited, sigint, used>>

\* sock.send(reply); return remote_socket  -- new_connect returns it with the host,
\* and _handle_channel logs 'Connected' and calls proxy_sock_channel(sock, channel)
SocksReply(p, t) ==
    /\ ~exited[p] /\ AtRest(p)
    /\ th[p][t].pc = "idle" /\ socks[t].stage = "Reply"
    /\ LET reply == ConnectReply(socks[t].af, socks[t].dial = "ok")
       IN  SockSend(p, t, reply,
                    [socks[t] EXCEPT !.stage = "Connected", !.reply = reply,
                                     !.proxy = TRUE])
    /\ UNCHANGED <<server, codec, serial, channels, closed_channels, transport_lock, transport_open,
                   rxbuf, th, exited, sigint, used>>

\* except ValueError / except Exception:
\*     self.tunnel.close_channel(channel.channel_id, close_remote=True)
SocksCloseChannel(p, t) ==
    /\ Starting(p, t, "idle")
    /\ socks[t].stage = "Raised"
    /\ SetMe(p, t, [Enter(p, Me(p, t), "cc_check", "idle",
                          ChannelIdOf(p, socks[t].ch), TRUE, FALSE)
                       EXCEPT !.op = "close_channel"])
    /\ socks' = [socks EXCEPT ![t].stage = "Closing"]
    /\ UNCHANGED <<server, codec, serial, chans, channels, closed_channels, transport_lock,
                   transport_open, rxbuf, exited, sigint, used>>

\* return  (sock is None on this path: there is no target socket to close)
SocksReturn(p, t) ==
    /\ Running(p, t, "idle")
    /\ socks[t].stage = "Closing"
    /\ socks' = [socks EXCEPT ![t].stage = "Failed"]
    /\ UNCHANGED <<server, codec, serial, chans, channels, closed_channels, transport_lock,
                   transport_open, rxbuf, th, exited, sigint, used>>

HandlerSocksSteps(p, t) ==
    \/ \E o \in 1..NumIds : StartHandler(p, t, o)
    \/ SocksRecv(p, t) \/ SocksMethod(p, t)
    \/ SocksReject(p, t) \/ SocksRejectClose(p, t)
    \/ \E ok \in BOOLEAN : SocksDial(p, t, ok)
    \/ SocksReply(p, t)
    \/ SocksCloseChannel(p, t) \/ SocksReturn(p, t)

CloseSteps(p, t) ==
    \/ CloseCheck(p, t) \/ CloseLookup(p, t) \/ CloseGet(p, t) \/ CloseRemove(p, t)
    \/ CloseEndpoints(p, t) \/ CloseFinish(p, t) \/ CloseReturn(p, t)
    \/ SendAcquire(p, t) \/ SendIO(p, t) \/ SendRelease(p, t)

\* Server._handle_channel: the next id of channel_counter goes out in an
\* OpenChannel frame (the model counts the ids from 1).
ServerOpens(p) ==
    /\ Len(chans[p]) < NumIds
    /\ PeerSends(p, OpenChannel, Len(chans[p]) + 1)

\* The SOCKS client's bytes, which the Server's proxy worker forwards in one Data
\* frame: the greeting and then, after the method selection, a request.
ClientWrites(p, o, data) ==
    /\ ~exited[p] /\ AtRest(p)
    /\ transport_open[Other(p)]
    /\ rxbuf[p] = <<>>
    /\ o \in 1..Len(chans[p])
    /\ chans[p][o].to_client = <<>>
    /\ \E t \in SessionOf(o) :
          \/ socks[t].stage = "AwaitingGreeting" /\ data = Greeting
          \/ socks[t].stage = "AwaitingRequest" /\ data \in Requests
    /\ rxbuf' = [rxbuf EXCEPT ![p] = serialize(Msg(data, ChannelIdOf(p, o), Data))]
    /\ UNCHANGED <<server, socks, codec, serial, chans, channels, closed_channels, transport_lock,
                   transport_open, th, exited, sigint, used>>

\* The SOCKS client goes away: the Server's worker closes the channel remotely.
ServerCloses(p, id) ==
    /\ id <= Len(chans[p])
    /\ PeerSends(p, CloseChannel, id)

InitSocks == Start /\ serial = TRUE /\ codec = NoCodec /\ socks = NoSocks /\ server = NoServer

NextSocks ==
    \/ ServerOpens("A")
    \/ \E o \in 1..NumIds, data \in Requests \cup {Greeting} : ClientWrites("A", o, data)
    \/ \E id \in IdSet : ServerCloses("A", id)
    \/ MonitorStep("A") \/ TunnelStep("A", "mon")
    \/ HandlerSocksSteps("A", "w1") \/ CloseSteps("A", "w1")
    \/ PeerReceives("A")

SpecSocks == InitSocks /\ [][NextSocks]_vars

WrongVerCmd(req) == Len(req) >= 10 /\ (req[1] # 5 \/ req[2] # 1)

OtherAtyp(req) == Len(req) >= 10 /\ req[1] = 5 /\ req[2] = 1 /\ req[4] \notin {1, 3, 4}

\* C19: the negotiator dials only for a request with VER 5, CMD 1 and ATYP 1, 3
\* or 4.  After a request with another VER or CMD it has replied 05 01 00 00, after
\* one with another ATYP 05 08 00 00; it has not dialed, has closed its end of the
\* channel, has failed and started no proxy worker; and the close_channel the
\* Relay then makes leaves the channel closed and writes exactly one CloseChannel
\* frame for its id.
C19_RejectsBadRequest ==
    \A t \in Workers :
        LET s == socks[t]
            me == th["A"][t]
            rejected == WrongVerCmd(s.req) \/ OtherAtyp(s.req)
        IN  /\ s.dials > 0 =>
                  /\ Len(s.req) >= 10
                  /\ s.req[1] = 5 /\ s.req[2] = 1 /\ s.req[4] \in {1, 3, 4}
            /\ (rejected /\ s.stage # "Reject") =>
                  /\ s.stage \in {"RejectClose", "Raised", "Closing", "Failed"}
                  /\ s.dials = 0 /\ ~s.proxy
            /\ (rejected /\ s.err = "ValueError") =>
                  /\ s.reply = IF OtherAtyp(s.req) THEN <<5, 8, 0, 0>> ELSE <<5, 1, 0, 0>>
                  /\ ~chans["A"][s.ch].client_open
            /\ (rejected /\ s.stage = "Closing" /\ me.pc = "cc_ret") =>
                  /\ Emitted("A", me) = FrameIf(TRUE, ChannelIdOf("A", s.ch), CloseChannel)
                  /\ ~InSeq(channels["A"], s.ch)
                  /\ ~chans["A"][s.ch].client_open /\ ~chans["A"][s.ch].tunnel_open
                  /\ InClosedSet("A", ChannelIdOf("A", s.ch))

\* A session that got the request 05 01 00 09 ..., replied 05 08 00 00, failed with
\* a ValueError and whose handler has closed the channel and returned.
C19_Witness ==
    \E t \in Workers :
        /\ socks[t].stage = "Failed" /\ socks[t].err = "ValueError"
        /\ OtherAtyp(socks[t].req)
        /\ socks[t].reply = <<5, 8, 0, 0>>
        /\ ~InSeq(channels["A"], socks[t].ch)

\* C20: a session is Connected, with its target socket handed to the proxy
\* worker, only when the dial succeeded.  After a failed dial the reply is
\* 05 05 00 ATYP with a zero address and port 0, no proxy worker is started, and
\* the session fails and closes the channel.
C20_ConnectedOnlyAfterDial ==
    \A t \in Workers :
        LET s == socks[t]
        IN  /\ (s.stage = "Connected" \/ s.proxy) => s.dial = "ok"
            /\ (s.dial = "failed" /\ s.reply # <<>>) =>
                  s.reply = <<5, 5, 0, s.af>> \o Zeros(IF s.af = 1 THEN 4 ELSE 16) \o <<0, 0>>
            /\ (s.dial = "failed" /\ s.stage \notin {"Reply"}) =>
                  s.stage \in {"Raised", "Closing", "Failed"}

\* ------------------------------------------------ the Server's channel ids
\* counter(start=1, end=0xffffffff): range(start, end), so the last value is
\* end - 1.  The end is kept as its two 16-bit halves.
CounterEndHi == 65535

CounterEndLo == 65535

ServerClients == 40

CounterNear == 65530

\* channel_counter.__next__() has a value left
CounterLeft(c) ==
    \/ c \div 65536 < CounterEndHi
    \/ c \div 65536 = CounterEndHi /\ c % 65536 < CounterEndLo

\* Server.run: accept a SOCKS client and start a thread on _handle_channel, which
\* takes the next value of channel_counter as the channel id.
ServerAccept(p) ==
    /\ ~exited[p]
    /\ server.stage = "accept"
    /\ used < ServerClients
    /\ CounterLeft(server.counter)
    /\ server' = [server EXCEPT !.stage = "open", !.id = server.counter,
                                !.counter = @ + 1, !.frame = <<>>]
    /\ used' = used + 1
    /\ UNCHANGED <<socks, codec, serial, chans, channels, closed_channels, transport_lock,
                   transport_open, rxbuf, th, exited, sigint>>

\* self.tunnel.open_channel(id, open_remote=True, exc=True), as far as the frame:
\* transport_lock.acquire(); transport.sendall(message.serialize()); release().
\* struct.error is no ValueError, so it ends the thread with the lock held.
ServerOpenChannel(p, t) ==
    /\ ~exited[p]
    /\ server.stage = "open"
    /\ LockFree(p)
    /\ LET m == Msg(<<>>, server.id, OpenChannel)
       IN  IF serialize_raises(m) = "none"
           THEN /\ server' = [server EXCEPT !.stage = "proxy", !.frame = serialize(m)]
                /\ UNCHANGED transport_lock
           ELSE /\ server' = [server EXCEPT !.stage = "died", !.err = "struct.error"]
                /\ transport_lock' = [transport_lock EXCEPT ![p] = t]
    /\ UNCHANGED <<socks, codec, serial, chans, channels, closed_channels, transport_open,
                   rxbuf, th, exited, sigint, used>>

\* The client's thread is over (its proxy worker returned, or the thread died);
\* the Server goes on accepting.
ServerThreadEnds(p) ==
    /\ ~exited[p]
    /\ server.stage \in {"proxy", "died"}
    /\ server' = [server EXCEPT !.stage = "accept"]
    /\ UNCHANGED <<socks, codec, serial, chans, channels, closed_channels, transport_lock,
                   transport_open, rxbuf, th, exited, sigint, used>>

\* The Server of a new tunnel, and the Server that has served CounterNear clients.
InitServer ==
    /\ Start /\ serial = TRUE /\ codec = NoCodec /\ socks = NoSocks
    /\ server \in {[NoServer EXCEPT !.counter = c] : c \in {0, CounterNear}}

NextServer ==
    ServerAccept("A") \/ ServerOpenChannel("A", "w1") \/ ServerThreadEnds("A")

SpecServer == InitServer /\ [][NextServer]_vars

\* C21: every id the Server takes from its counter and passes to open_channel is
\* in 0..65535, and the OpenChannel frame for it is encoded (no client's thread
\* ends on an encoding error) and carries that id.
C21_ServerIdsEncodable ==
    /\ server.stage # "accept" => server.id \in 0..IdMax
    /\ server.err = "none"
    /\ server.stage = "proxy" =>
          /\ Len(server.frame) = HDR_SIZE
          /\ parse_hdr(server.frame).channel_id = server.id

\* The monitor is leaving the close_channel it called for a Data frame whose id
\* had no channel in the open set.
DataForUnknown(p) ==
    LET me == th[p]["mon"]
    IN  /\ me.pc = "cc_ret" /\ me.stack = <<"m_select">> /\ me.remote
        /\ OpenAtEntry(p, me) = 0

\* C22: when the monitor has handled a Data frame whose id was not in the open
\* set (closed earlier or never opened), it has written one CloseChannel frame
\* for that id and has delivered the body to no channel.
C22_UnknownDataClosed ==
    \A p \in Peers :
        DataForUnknown(p) =>
            LET me == th[p]["mon"]
            IN  /\ Emitted(p, me) = FrameIf(TRUE, me.id, CloseChannel)
                /\ \A o \in 1..me.pre.nobj : chans[p][o].dlv = me.pre.dlv[o]

\* The monitor is inside the open_channel or close_channel it called for a
\* received OpenChannel or CloseChannel frame.
HandlingControl(p) ==
    LET me == th[p]["mon"]
    IN  /\ me.pre # NoSnap
        /\ me.stack # <<>>
        /\ \/ me.pc \in {"oc_check", "oc_new", "oc_cb", "oc_ret"}
           \/ me.stack[Len(me.stack)] = "m_ignore"

\* C23: while the monitor handles a received OpenChannel or CloseChannel frame,
\* whatever the state of the id, it writes nothing to the transport and never
\* enters the write path.
C23_NoRemoteEcho ==
    \A p \in Peers :
        HandlingControl(p) =>
            /\ Emitted(p, th[p]["mon"]) = <<>>
            /\ ~th[p]["mon"].remote
            /\ th[p]["mon"].pc \notin {"s_acq", "s_io", "s_rel"}

\* The monitor has closed an open channel on a CloseChannel frame and is about to
\* return, after it opened a channel on an OpenChannel frame before.
C23_Witness ==
    /\ th["A"]["mon"].pc = "cc_ret" /\ th["A"]["mon"].stack = <<"m_ignore">>
    /\ OpenAtEntry("A", th["A"]["mon"]) # 0
    /\ chans["A"][OpenAtEntry("A", th["A"]["mon"])].by_frame
    /\ Emitted("A", th["A"]["mon"]) = <<>>

\* The monitor ends an iteration: it goes back to the select.
IterationEnds(p) == th[p]["mon"].pc # "m_select" /\ th'[p]["mon"].pc = "m_select"

\* C24: the monitor ends an iteration only when every channel endpoint that its
\* select reported ready has been read in that iteration, also when the transport
\* was ready too and its frame was dispatched first; the channels the iteration
\* closed are the exception.
C24_TransportThenChannels ==
    [][\A p \in Peers :
          IterationEnds(p) =>
              \A k \in 1..Len(th[p]["mon"].r) : ~InSeq(channels'[p], th[p]["mon"].r[k])]_vars

\* C25: once the monitor has got a CloseChannel frame for a channel, no body of a
\* later Data frame is delivered to that channel, and the monitor reads nothing
\* more from its tunnel endpoint to forward it.
C25_CloseSymmetry ==
    [][\A p \in Peers : \A o \in 1..Len(chans[p]) :
          chans[p][o].close_rx =>
              /\ chans'[p][o].dlv = chans[p][o].dlv
              /\ Len(chans'[p][o].to_tunnel) >= Len(chans[p][o].to_tunnel)]_vars

\* ------------------------------------------- Tunnel.proxy_sock_channel
\* The worker of a channel: thread t copies between the real socket and the
\* client end of channel socks[t].ch.  Its tunnel calls run on th[p][t].
ProxyAt(p, t, stage) == ~exited[p] /\ th[p][t].pc = "idle" /\ socks[t].stage = stage

\* A worker that goes round its loop again where it should return.
ProxyGoesOn(s, why) == [s EXCEPT !.stage = "Connected", !.r = {}, !.data = <<>>]

ProxyEnds(s, why) == [s EXCEPT !.stage = "Ended", !.why = why, !.r = {}, !.data = <<>>]

\* if (channel, channel.channel_id) not in self.channels: return
ProxyCheck(p, t) ==
    /\ ProxyAt(p, t, "Connected")
    /\ socks' = [socks EXCEPT ![t] =
                    IF InSeq(channels[p], socks[t].ch)
                    THEN [socks[t] EXCEPT !.stage = "p_select"]
                    ELSE ProxyEnds(socks[t], "gone")]
    /\ UNCHANGED <<server, codec, serial, chans, channels, closed_channels, transport_lock,
                   transport_open, rxbuf, th, exited, sigint, used>>

ChannelReadable(c) == c.to_client # <<>> \/ ~c.tunnel_open

SockReadable(s) == s.sin # <<>> \/ s.far # "up"

\* r, _, _ = select.select([channel, sock], [], [], 1): channel.fileno() of a closed
\* client end is -1 and select raises; nothing ready is the timeout.
ProxySelect(p, t) ==
    /\ ProxyAt(p, t, "p_select")
    /\ LET s == socks[t]
           c == chans[p][s.ch]
           r == (IF ChannelReadable(c) THEN {"channel"} ELSE {})
                    \cup (IF SockReadable(s) THEN {"sock"} ELSE {})
       IN  socks' = [socks EXCEPT ![t] =
                        IF ~c.client_open THEN ProxyEnds(s, "select")
                        ELSE IF r = {} THEN [s EXCEPT !.stage = "Connected"]
                        ELSE [s EXCEPT !.r = r,
                                       !.stage = IF "channel" \in r THEN "p_chan"
                                                 ELSE "p_sock"]]
    /\ UNCHANGED <<server, codec, serial, chans, channels, closed_channels, transport_lock,
                   transport_open, rxbuf, th, exited, sigint, used>>

\* data = channel.recv(4096): b'' at the end of the stream and on any error
ProxyChannelRead(p, t) ==
    /\ ProxyAt(p, t, "p_chan")
    /\ LET s == socks[t]
           c == chans[p][s.ch]
           n == Min(RecvMax, Len(c.to_client))
       IN  IF c.client_open /\ c.to_client # <<>>
           THEN /\ chans' = [chans EXCEPT
                                ![p][s.ch].to_client = SubSeq(@, n + 1, Len(@)),
                                ![p][s.ch].rdlog = @ \o SubSeq(c.to_client, 1, n)]
                /\ socks' = [socks EXCEPT ![t].stage = "p_tosock",
                                          ![t].data = SubSeq(c.to_client, 1, n)]
           ELSE /\ ~c.client_open \/ ~c.tunnel_open
                /\ socks' = [socks EXCEPT ![t].stage = "p_close"]
                /\ UNCHANGED chans
    /\ UNCHANGED <<server, codec, serial, channels, closed_channels, transport_lock,
                   transport_open, rxbuf, th, exited, sigint, used>>

AfterChannel(s) ==
    [s EXCEPT !.data = <<>>, !.stage = IF "sock" \in s.r THEN "p_sock" ELSE "Connected"]

\* sock.sendall(data)
ProxySockWrite(p, t) ==
    /\ ProxyAt(p, t, "p_tosock")
    /\ socks' = [socks EXCEPT ![t] =
                    IF socks[t].far = "reset"
                    THEN [socks[t] EXCEPT !.stage = "p_close"]
                    ELSE [AfterChannel(socks[t]) EXCEPT !.sout = @ \o socks[t].data]]
    /\ UNCHANGED <<server, codec, serial, chans, channels, closed_channels, transport_lock,
                   transport_open, rxbuf, th, exited, sigint, used>>

\* data = sock.recv(4096): an error, b'' or bytes
ProxySockRead(p, t) ==
    /\ ProxyAt(p, t, "p_sock")
    /\ socks' = [socks EXCEPT ![t] =
                    IF socks[t].far = "reset" \/ socks[t].sin = <<>>
                    THEN [socks[t] EXCEPT !.stage = "p_close", !.sin = <<>>]
                    ELSE [socks[t] EXCEPT !.stage = "p_tochan", !.data = socks[t].sin,
                                          !.sin = <<>>]]
    /\ UNCHANGED <<server, codec, serial, chans, channels, closed_channels, transport_lock,
                   transport_open, rxbuf, th, exited, sigint, used>>

\* channel.send(data): self._client_end.sendall(data); self.tx += len(data)
ProxyChannelWrite(p, t) ==
    /\ ProxyAt(p, t, "p_tochan")
    /\ LET s == socks[t]
           c == chans[p][s.ch]
       IN  IF c.client_open /\ c.tunnel_open
           THEN /\ chans' = [chans EXCEPT ![p][s.ch].to_tunnel = @ \o s.data,
                                          ![p][s.ch].tx = @ + Len(s.data)]
                /\ socks' = [socks EXCEPT ![t].stage = "Connected", ![t].data = <<>>]
           ELSE /\ socks' = [socks EXCEPT ![t].stage = "p_close"]
                /\ UNCHANGED chans
    /\ UNCHANGED <<server, codec, serial, channels, closed_channels, transport_lock,
                   transport_open, rxbuf, th, exited, sigint, used>>

\* close_both(): self.close_channel(channel.channel_id, close_remote=True)
ProxyCloseBoth(p, t) ==
    /\ ProxyAt(p, t, "p_close")
    /\ SetMe(p, t, [Enter(p, Me(p, t), "cc_check", "idle",
                          ChannelIdOf(p, socks[t].ch), TRUE, FALSE)
                       EXCEPT !.op = "close_channel"])
    /\ socks' = [socks EXCEPT ![t].stage = "p_closing"]
    /\ UNCHANGED <<server, codec, serial, chans, channels, closed_channels, transport_lock,
                   transport_open, rxbuf, exited, sigint, used>>

\* close_both(): sock.close(); then the worker returns
ProxySockClose(p, t) ==
    /\ ProxyAt(p, t, "p_closing")
    /\ socks' = [socks EXCEPT ![t] = [ProxyEnds(socks[t], "closed") EXCEPT !.sock = "closed"]]
    /\ UNCHANGED <<server, codec, serial, chans, channels, closed_channels, transport_lock,
                   transport_open, rxbuf, th, exited, sigint, used>>

\* close_channel raised inside close_both: the exception ends the worker's thread
ProxyDies(p, t) ==
    /\ ~exited[p]
    /\ th[p][t].pc = "done" /\ socks[t].stage = "p_closing"
    /\ socks' = [socks EXCEPT ![t] = ProxyEnds(socks[t], th[p][t].res)]
    /\ UNCHANGED <<server, codec, serial, chans, channels, closed_channels, transport_lock,
                   transport_open, rxbuf, th, exited, sigint, used>>

ProxySteps(p, t) ==
    \/ ProxyCheck(p, t) \/ ProxySelect(p, t)
    \/ ProxyChannelRead(p, t) \/ ProxySockWrite(p, t)
    \/ ProxySockRead(p, t) \/ ProxyChannelWrite(p, t)
    \/ ProxyCloseBoth(p, t) \/ ProxySockClose(p, t) \/ ProxyDies(p, t)

\* The far end of the real socket sends a byte, closes, or resets the connection.
FarSends(p, t) ==
    /\ ~exited[p] /\ CanOp
    /\ socks[t].sock = "open" /\ socks[t].far = "up" /\ socks[t].sin = <<>>
    /\ socks' = [socks EXCEPT ![t].sin = <<200 + used>>]
    /\ used' = used + 1
    /\ UNCHANGED <<server, codec, serial, chans, channels, closed_channels, transport_lock,
                   transport_open, rxbuf, th, exited, sigint>>

FarEnds(p, t, how) ==
    /\ ~exited[p]
    /\ socks[t].sock = "open" /\ socks[t].far = "up"
    /\ socks' = [socks EXCEPT ![t].far = how]
    /\ UNCHANGED <<server, codec, serial, chans, channels, closed_channels, transport_lock,
                   transport_open, rxbuf, th, exited, sigint, used>>

\* Channel 1 is open on peer A and proxy_sock_channel has just been called for
\* it by thread w1 with a connected socket; the threads interleave.
InitProxy ==
    /\ chans = [p \in Peers |->
                    IF p = "A" THEN <<[NewChannel(1) EXCEPT !.opened_cb = 1]>> ELSE <<>>]
    /\ channels = [p \in Peers |-> IF p = "A" THEN <<1>> ELSE <<>>]
    /\ closed_channels = [p \in Peers |-> [i \in IdSet |-> 0]]
    /\ transport_lock = [p \in Peers |-> "free"]
    /\ transport_open = [p \in Peers |-> TRUE]
    /\ rxbuf = [p \in Peers |-> <<>>]
    /\ th = [p \in Peers |->
                [t \in Threads |-> ThreadInit(IF t = "mon" THEN "m_select" ELSE "idle")]]
    /\ exited = [p \in Peers |-> FALSE]
    /\ sigint = [p \in Peers |-> FALSE]
    /\ used = 0
    /\ serial = FALSE
    /\ codec = NoCodec /\ server = NoServer
    /\ socks = [NoSocks EXCEPT !["w1"] = [NoSession EXCEPT !.ch = 1, !.stage = "Connected",
                                                            !.proxy = TRUE, !.sock = "open"]]

WorkerProxySteps(p, t) == ProxySteps(p, t) \/ CloseSteps(p, t)

NextProxy ==
    \/ WorkerProxySteps("A", "w1")
    \/ MonitorStep("A") \/ TunnelStep("A", "mon")
    \/ FarSends("A", "w1")
    \/ \E how \in {"eof", "reset"} : FarEnds("A", "w1", how)
    \/ \E ty \in {Data, OpenChannel, CloseChannel} : PeerSends("A", ty, 1)
    \/ PeerReceives("A")

SpecProxy ==
    /\ InitProxy /\ [][NextProxy]_vars
    /\ WF_vars(WorkerProxySteps("A", "w1"))
    /\ WF_vars(MonitorStep("A") \/ TunnelStep("A", "mon"))

\* The worker of thread t has ended after it went into close_both.
EndedByCloseBoth(t) ==
    socks[t].stage = "Ended" /\ socks[t].why \notin {"none", "gone", "select"}

\* C26: a proxy worker that met an error or the end of a stream on either side has
\* ended with the channel out of the open set, with the real socket closed, and,
\* where its own close_channel closed the channel, with the CloseChannel frame
\* written.
C26_CloseBothClosesBoth ==
    \A t \in Workers :
        EndedByCloseBoth(t) =>
            LET c == chans["A"][socks[t].ch]
            IN  /\ ~InSeq(channels["A"], socks[t].ch)
                /\ socks[t].sock = "closed"
                /\ (c.closed_cb > 0 /\ ~c.by_frame) => c.close_sent

\* C27: once the channel of a proxy worker is out of the open set, whoever took it
\* out and whether or not its id is opened again, the worker ends.
C27_WorkerEndsAfterClose ==
    \A t \in Workers :
        (socks[t].proxy /\ ~InSeq(channels["A"], socks[t].ch)) ~> (socks[t].stage = "Ended")

\* The worker ended at its check of the open set, after the monitor had closed its
\* channel on a CloseChannel frame and a new channel had been opened with the id.
C27_Witness ==
    /\ socks["w1"].stage = "Ended" /\ socks["w1"].why = "gone"
    /\ chans["A"][1].by_frame
    /\ Len(chans["A"]) > 1 /\ InOpenSet("A", 1)

\* C30: when a proxy worker has ended, for whatever reason, its real socket is
\* closed.
C30_SocketClosedAtEnd ==
    \A t \in Workers : socks[t].stage = "Ended" => socks[t].sock = "closed"

\* C28: transport_lock is held only by a thread that is writing a frame: once a
\* write has ended, with or without an error, the lock is free again, so no later
\* open_channel or close_channel waits for it for good.
C28_LockReleased ==
    \A p \in Peers :
        transport_lock[p] # "free" => th[p][transport_lock[p]].pc \in {"s_io", "s_rel"}

\* C29: when a worker's close_both and the monitor (on a CloseChannel frame) are
\* inside close_channel for the same open id together, the channel is closed
\* once: its close callback has run at most once, and no thread has been ended by
\* a KeyError (the lookup of L394) or a ValueError (the remove of L395).
C29_ConcurrentCloseOnce ==
    \A p \in Peers :
        /\ \A o \in 1..Len(chans[p]) : chans[p][o].closed_cb <= 1
        /\ \A t \in Threads : th[p][t].res \notin {"KeyError", "ValueError"}

\* ------------------------------------------------- close propagation, end to end
\* The two tunnels of SpecE2E with every thread scheduled: A's worker goes on
\* through the call it is in, and both monitors keep going round their loops.
SpecE2ELive ==
    /\ SpecE2E
    /\ WF_vars(TunnelStep("A", "w1"))
    /\ \A p \in Peers : WF_vars(MonitorStep(p) \/ TunnelStep(p, "mon"))

\* Channel objects a tunnel can have made within the budget of calls.
ObjSet == 1..(MaxOps + 2)

\* A's worker is entering close_channel(c, close_remote=True) for an id c that is
\* open at A, and B's open channel for c is its object o.
ClosingRemote(o) ==
    LET me == th["A"]["w1"]
    IN  IF me.op = "close_channel" /\ me.pc = "cc_check" /\ me.remote /\ me.id \in IdSet
        THEN InOpenSet("A", me.id) /\ id_channel_map("B")[me.id] = o
        ELSE FALSE

\* B has taken its object o out of the open set and closed both of its ends.
ClosedAt(o) ==
    IF o <= Len(chans["B"])
    THEN /\ ~InSeq(channels["B"], o)
         /\ ~chans["B"][o].client_open /\ ~chans["B"][o].tunnel_open
    ELSE FALSE

\* C31: whenever A closes an id with close_remote=True that is open at A while B
\* has an open channel for it, B eventually removes that channel from its open
\* set and closes both of its endpoints, also when B has closed the id before.
C31_ClosePropagates ==
    \A o \in ObjSet : ClosingRemote(o) ~> ClosedAt(o)
====
